---- MODULE Spec2Model ----
(***************************************************************************)
(* A model of the Checkout component of Reina Shop (its form state, its    *)
(* mirroring to localStorage, the order message composer and the order     *)
(* placement / recovery flow), and of MainApp, the parent that renders it  *)
(* (its view, category and search state).                                  *)
(*                                                                         *)
(* Text is modelled as a sequence of tokens: "g1_0_uid" is                 *)
(* <<"g1", "_", "0", "_", "uid">>.  Concatenation is \o, so that composite *)
(* keys, joins and splits are computed the way the code computes them and  *)
(* two different constructions that yield the same text are equal.         *)
(* Identifiers that the code never takes apart (payment method uuids,      *)
(* order ids, urls, statuses) are plain strings, with NULL for null.       *)
(***************************************************************************)
EXTENDS Integers, Sequences, FiniteSets, TLC

VARIABLES
    mounted,              \* the Checkout component is mounted
    cartItems,            \* props.cartItems
    orderOption,          \* siteSettings.order_option
    paymentMethods,       \* usePaymentMethods().paymentMethods
    paymentMethodUuid,
    customFieldValues,
    bulkInputValues,
    bulkSelectedGames,
    receiptFile,
    receiptImageUrl,
    receiptPreview,
    receiptError,
    hasCopiedMessage,
    orderId,
    isOrderModalOpen,
    isPlacingOrder,
    existingOrderStatus,
    isCheckingExistingOrder,
    storage,              \* window.localStorage, the keys the component uses
    pending,              \* asynchronous operations in flight
    last,                 \* the operation that ran last and what it did
    reloadMsg,            \* the order message just before the last reload
    nOrders,              \* orders created so far
    nReloads,             \* page reloads so far
    isMessengerBrowser,   \* the page runs in Messenger's in-app browser
    currentView,          \* MainApp: 'menu' | 'cart' | 'checkout'
    selectedCategory,     \* MainApp: the category shown in the menu
    searchQuery,          \* MainApp: the text of the search box
    menuItems,            \* MainApp: what useMenu has delivered
    appStorage            \* localStorage: the keys MainApp reads and writes

vars == <<mounted, cartItems, orderOption, paymentMethods, paymentMethodUuid,
          customFieldValues, bulkInputValues, bulkSelectedGames, receiptFile,
          receiptImageUrl, receiptPreview, receiptError, hasCopiedMessage,
          orderId, isOrderModalOpen, isPlacingOrder, existingOrderStatus,
          isCheckingExistingOrder, storage, pending, last, reloadMsg,
          nOrders, nReloads, isMessengerBrowser, currentView, selectedCategory,
          searchQuery, menuItems, appStorage>>

\* the state of MainApp, the parent that renders Checkout
AppVars == <<currentView, selectedCategory, searchQuery, menuItems, appStorage>>

-----------------------------------------------------------------------------
(* Bounds *)

\* orders the user places
MaxOrders == 2
\* page reloads
MaxReloads == 1
\* modal-close fetches in flight at once
MaxCloseFetches == 2
\* the longest cart
MaxCartLen == 3

-----------------------------------------------------------------------------
(* Text *)

NULL == "NULL"

SetMin(S) == CHOOSE m \in S : \A n \in S : m <= n
SetMax(S) == CHOOSE m \in S : \A n \in S : m >= n

\* Array.prototype.join
RECURSIVE Join(_, _)
Join(strs, sep) ==
    IF Len(strs) = 0 THEN <<>>
    ELSE IF Len(strs) = 1 THEN strs[1]
    ELSE strs[1] \o sep \o Join(Tail(strs), sep)

IsWhitespace(t) == t \in {" ", "\n"}

\* String.prototype.trim
Trim(s) ==
    LET keep == {i \in 1..Len(s) : ~IsWhitespace(s[i])}
    IN  IF keep = {} THEN <<>> ELSE SubSeq(s, SetMin(keep), SetMax(keep))

\* a value is truthy in JavaScript: a non-empty string
Truthy(s) == s # <<>>

\* the same for a `string | null` kept as one atom: neither null nor ''
RawTruthy(v) == v \notin {NULL, ""}

\* obj[key] || ''
Get(obj, key) == IF key \in DOMAIN obj THEN obj[key] ELSE <<>>

\* { ...obj, [key]: value }
Put(obj, key, value) ==
    [k \in (DOMAIN obj) \cup {key} |-> IF k = key THEN value ELSE obj[k]]

\* { ...obj, ...updates }
Merge(obj, updates) ==
    [k \in (DOMAIN obj) \cup (DOMAIN updates) |->
        IF k \in DOMAIN updates THEN updates[k] ELSE obj[k]]

EmptyObj == [k \in {} |-> <<>>]

SeqToSet(seq) == {seq[i] : i \in 1..Len(seq)}

-----------------------------------------------------------------------------
(* Cart items and composite keys *)

CartSep == ":::CART:::"

getOriginalMenuItemId(cartItemId) ==
    LET at == {i \in 1..Len(cartItemId) : cartItemId[i] = CartSep}
    IN  IF at # {} THEN SubSeq(cartItemId, 1, SetMin(at) - 1) ELSE cartItemId

HasFields(item) == Len(item.customFields) > 0

\* faulty variant: every cart item with fields, without the deduplication
itemsWithFieldsOf(items) == SelectSeq(items, HasFields)

\* the first cart item of every original menu item id, among those with fields
itemsWithCustomFieldsOf(items) ==
    LET withFields == SelectSeq(items, HasFields)
        First(i) == \A j \in 1..(i - 1) :
                        getOriginalMenuItemId(withFields[j].id)
                            # getOriginalMenuItemId(withFields[i].id)
        idx == {i \in 1..Len(withFields) : First(i)}
        RECURSIVE Pick(_)
        Pick(i) == IF i > Len(withFields) THEN <<>>
                   ELSE (IF i \in idx THEN <<withFields[i]>> ELSE <<>>) \o Pick(i + 1)
    IN  Pick(1)

itemsWithCustomFields == itemsWithCustomFieldsOf(cartItems)

hasAnyCustomFields == Len(itemsWithCustomFields) > 0

\* `${originalId}_${fieldIndex}_${field.key}`, fieldIndex counted from 0
FormValueKey(originalId, fieldIndex, key) ==
    originalId \o <<"_">> \o <<ToString(fieldIndex)>> \o <<"_">> \o key

\* `${originalId}_${field.key}`
MessageValueKey(originalId, key) == originalId \o <<"_">> \o key

DefaultIgnKey == <<"default_ign">>

-----------------------------------------------------------------------------
(* Order message composer *)

\* undefined, as the result of paymentMethods.find
NoPaymentMethod == [uuid_id |-> NULL, name |-> NULL]

\* paymentMethods.find(method => method.uuid_id === paymentMethodUuid)
FindPaymentMethod(methods, uuid) ==
    LET at == {i \in 1..Len(methods) : methods[i].uuid_id = uuid}
    IN  IF at = {} THEN NoPaymentMethod ELSE methods[SetMin(at)]

selectedPaymentMethod == FindPaymentMethod(paymentMethods, paymentMethodUuid)

\* The value generateOrderMessage reads for a field of an item
MessageFieldValue(values, item, field) ==
    Get(values, MessageValueKey(getOriginalMenuItemId(item.id), field.key))

\* item.customFields.map(...).filter(Boolean): the filled fields of an item
FilledFields(item, values) ==
    LET all == [i \in 1..Len(item.customFields) |->
                    [label |-> item.customFields[i].label,
                     value |-> MessageFieldValue(values, item, item.customFields[i])]]
        Filled(f) == Truthy(f.value)
    IN  SelectSeq(all, Filled)

\* fields.map(f => `${f.label}:${f.value}`).join('|')
GroupKey(fields) ==
    Join([i \in 1..Len(fields) |-> fields[i].label \o <<":">> \o fields[i].value],
         <<"|">>)

\* the Map gamesByFieldValues, in insertion order
RECURSIVE GroupGames(_, _, _)
GroupGames(items, values, groups) ==
    IF Len(items) = 0 THEN groups
    ELSE LET item == Head(items)
             fields == FilledFields(item, values)
             key == GroupKey(fields)
             at == {g \in 1..Len(groups) : groups[g].key = key}
             next == IF Len(fields) = 0 THEN groups
                     ELSE IF at = {}
                     THEN Append(groups, [key |-> key, games |-> <<item.name>>,
                                          fields |-> fields])
                     ELSE [groups EXCEPT ![SetMin(at)].games = Append(@, item.name)]
         IN  GroupGames(Tail(items), values, next)

gamesByFieldValues(items, values) ==
    GroupGames(itemsWithCustomFieldsOf(items), values, <<>>)

\* 'A, B & C' from the labels of a block
CombinedLabels(fields) ==
    LET labels == Join([i \in 1..Len(fields) |-> fields[i].label], <<",", " ">>)
        commas == {i \in 1..Len(labels) : labels[i] = ","}
        \* lastIndexOf(','), counted from 0; -1 when there is none
        lastCommaIndex == IF commas = {} THEN -1 ELSE SetMax(commas) - 1
    IN  IF lastCommaIndex > 0
        THEN SubSeq(labels, 1, lastCommaIndex) \o <<" ", "&">>
                 \o SubSeq(labels, lastCommaIndex + 2, Len(labels))
        ELSE labels

\* faulty variant: differing answers are written one to a line
BlockAnswersOwnLines(fields) ==
    LET allValuesSame == \A i \in 1..Len(fields) : fields[i].value = fields[1].value
    IN  IF allValuesSame /\ Len(fields) > 1
        THEN CombinedLabels(fields) \o <<":", " ">> \o fields[1].value
        ELSE Join([i \in 1..Len(fields) |->
                      fields[i].label \o <<":", " ">> \o fields[i].value],
                  <<"\n">>)

\* the line of answers of one block
BlockAnswers(fields) ==
    LET allValuesSame == \A i \in 1..Len(fields) : fields[i].value = fields[1].value
    IN  IF allValuesSame /\ Len(fields) > 1
        THEN CombinedLabels(fields) \o <<":", " ">> \o fields[1].value
        ELSE Join([i \in 1..Len(fields) |->
                      fields[i].label \o <<":", " ">> \o fields[i].value],
                  <<",", " ">>)

\* the array `sections`: for every block its game names, then its answers
RECURSIVE Sections(_)
Sections(groups) ==
    IF Len(groups) = 0 THEN <<>>
    ELSE <<Join(Head(groups).games, <<"\n">>), BlockAnswers(Head(groups).fields)>>
             \o Sections(Tail(groups))

\* faulty variant: the fallback line is written for an empty cart only
CustomFieldsSectionOfAnyItem(items, values) ==
    IF Len(items) > 0
    THEN Join(Sections(gamesByFieldValues(items, values)), <<"\n">>)
    ELSE <<"IGN: ">> \o Get(values, DefaultIgnKey)

\* customFieldsSection of generateOrderMessage
CustomFieldsSection(items, values) ==
    IF Len(itemsWithCustomFieldsOf(items)) > 0
    THEN Join(Sections(gamesByFieldValues(items, values)), <<"\n">>)
    ELSE <<"IGN: ">> \o Get(values, DefaultIgnKey)

\* one line of ORDER DETAILS
OrderLine(item) ==
    <<"* ">> \o item.name
        \o (IF item.selectedVariation # NULL
            THEN <<" (", item.selectedVariation, ")">> ELSE <<>>)
        \o <<" x", ToString(item.quantity), " - P",
             ToString(item.totalPrice * item.quantity)>>

RECURSIVE CartTotal(_)
CartTotal(items) ==
    IF Len(items) = 0 THEN 0
    ELSE Head(items).totalPrice * Head(items).quantity + CartTotal(Tail(items))

\* props.totalPrice, which the parent computes from the cart
totalPrice == CartTotal(cartItems)

\* the template of generateOrderMessage (emoji left out), trimmed
OrderMessage(items, values, method, receipt, total) ==
    Trim(<<"\n", "Reina Shop ORDER", "\n", "\n">>
         \o CustomFieldsSection(items, values)
         \o <<"\n", "\n", "ORDER DETAILS:", "\n">>
         \o Join([i \in 1..Len(items) |-> OrderLine(items[i])], <<"\n">>)
         \o <<"\n", "\n", "TOTAL: P", ToString(total)>>
         \o <<"\n", "\n", "Payment: ">>
         \o (IF method # NoPaymentMethod THEN <<method.name>> ELSE <<>>)
         \o <<"\n", "\n", "Payment Receipt: ">>
         \o (IF RawTruthy(receipt) THEN <<receipt>> ELSE <<>>)
         \o <<"\n", "\n",
              "Please confirm this order to proceed. Thank you for choosing Reina Shop!",
              "\n", " ">>)

generateOrderMessage ==
    OrderMessage(cartItems, customFieldValues, selectedPaymentMethod,
                 receiptImageUrl, totalPrice)

-----------------------------------------------------------------------------
(* The menu, the payment methods and the files of the model *)

Field(key, label, required) == [key |-> key, label |-> label, required |-> required]

FieldUid    == Field(<<"uid">>, <<"User ID">>, TRUE)
FieldServer == Field(<<"server">>, <<"Server">>, FALSE)
FieldZone   == Field(<<"zone">>, <<"Zone">>, TRUE)

Item(id, name, variation, fields) ==
    [id |-> id, name |-> name, quantity |-> 1, totalPrice |-> 50,
     selectedVariation |-> variation, customFields |-> fields]

\* a menu item without custom fields
ItemPlain == Item(<<"m0", CartSep, "1">>, <<"Gift Card">>, NULL, <<>>)
\* two packages of the same game
ItemG1a == Item(<<"g1", CartSep, "1">>, <<"Game One">>, "100 Gems",
                <<FieldUid, FieldServer>>)
ItemG1b == Item(<<"g1", CartSep, "2">>, <<"Game One">>, "500 Gems",
                <<FieldUid, FieldServer>>)
\* another game, with one more field; its id carries no cart suffix
ItemG2 == Item(<<"g2">>, <<"Game Two">>, NULL, <<FieldUid, FieldServer, FieldZone>>)

CartPlain == <<ItemPlain>>
CartOneGame == <<ItemG1a, ItemPlain, ItemG1b>>
CartTwoGames == <<ItemG1a, ItemG2>>

AllPaymentMethods ==
    << [uuid_id |-> "pm1", name |-> "GCash"], [uuid_id |-> "pm2", name |-> "Maya"] >>

Files == {"f1", "f2"}
\* the reference uploadImage returns for a file
UploadedUrl(file) == IF file = "f1" THEN "https://cdn/r1.png" ELSE "https://cdn/r2.png"
\* the data URL FileReader produces for a file
DataUrl(file) == IF file = "f1" THEN "data:image/png;f1" ELSE "data:image/png;f2"

\* what the user types into a text input
Typed == { <<>>, <<" ">>, <<"x">>, <<"y">> }

OrderStatuses == {"pending", "approved", "rejected"}
OrderIds == {"o0"} \cup {"o" \o ToString(n) : n \in 1..MaxOrders}

-----------------------------------------------------------------------------
(* localStorage *)

\* Values stored under the JSON keys: no entry, the text JSON.stringify
\* produced for a value, or some other text
Absent == [t |-> "absent"]
StoredJson(value) == [t |-> "json", j |-> value]
StoredText(text) == [t |-> "text", s |-> text]

JSONstringify(value) == StoredJson(value)

\* JSON.parse: the value, or a SyntaxError
JSONparse(stored) ==
    IF stored.t = "json" THEN [threw |-> FALSE, value |-> stored.j]
    ELSE [threw |-> TRUE, value |-> <<>>]

\* `saved ?`: getItem returned a non-empty string
StoredTruthy(stored) ==
    /\ stored.t # "absent"
    /\ ~(stored.t = "text" /\ stored.s = "")

EmptyStorage ==
    [paymentMethodUuid |-> NULL,
     customFieldValues |-> Absent,
     receiptImageUrl   |-> NULL,
     receiptPreview    |-> NULL,
     bulkInputValues   |-> Absent,
     bulkSelectedGames |-> Absent,
     current_order_id  |-> NULL]

-----------------------------------------------------------------------------
(* State initializers and effects *)

\* faulty variant: an initializer that ignores what is stored
TryParseIgnoresSaved(saved, default) == [threw |-> FALSE, value |-> default]

\* faulty variant: an initializer without its catch
TryParseNoCatch(saved, default) ==
    IF StoredTruthy(saved) THEN JSONparse(saved)
    ELSE [threw |-> FALSE, value |-> default]

\* try { saved ? JSON.parse(saved) : default } catch { default }
TryParse(saved, default) ==
    IF StoredTruthy(saved)
    THEN LET parsed == JSONparse(saved)
         IN  IF parsed.threw THEN [threw |-> FALSE, value |-> default] ELSE parsed
    ELSE [threw |-> FALSE, value |-> default]

\* parseInt(fieldIndexStr, 10); -1 stands for NaN
ParseInt(str) ==
    IF \E n \in 0..9 : ToString(n) = str
    THEN CHOOSE n \in 0..9 : ToString(n) = str
    ELSE -1

\* faulty variant: the fan-out reaches every field-bearing item
BulkSelectedItemsAll(items, selectedGames) == items

\* the items the bulk section has selected
BulkSelectedItems(items, selectedGames) ==
    SelectSeq(items, LAMBDA item :
                  getOriginalMenuItemId(item.id) \in SeqToSet(selectedGames))

\* the object `updates` of the bulk sync effect
BulkUpdates(items, selectedGames, bulkValues) ==
    IF Len(selectedGames) = 0 THEN EmptyObj
    ELSE LET selectedItems == BulkSelectedItems(items, selectedGames)
             HasField(n, k) == /\ ParseInt(k) >= 0
                               /\ ParseInt(k) < Len(selectedItems[n].customFields)
             KeyOf(n, k) ==
                 FormValueKey(getOriginalMenuItemId(selectedItems[n].id), ParseInt(k),
                              selectedItems[n].customFields[ParseInt(k) + 1].key)
             targets == {t \in (1..Len(selectedItems)) \X (DOMAIN bulkValues) :
                            HasField(t[1], t[2])}
             \* the entry written last wins: entries in ascending index order,
             \* items in their order
             Writers(key) == {t \in targets : KeyOf(t[1], t[2]) = key}
             LastWriter(key) ==
                 CHOOSE t \in Writers(key) :
                     \A u \in Writers(key) :
                         \/ ParseInt(u[2]) < ParseInt(t[2])
                         \/ (ParseInt(u[2]) = ParseInt(t[2]) /\ u[1] <= t[1])
         IN  [key \in {KeyOf(t[1], t[2]) : t \in targets} |->
                 bulkValues[LastWriter(key)[2]]]

\* the bulk sync effect: the field values after it ran
BulkSync(items, selectedGames, bulkValues, values) ==
    LET updates == BulkUpdates(items, selectedGames, bulkValues)
    IN  IF DOMAIN updates # {} THEN Merge(values, updates) ELSE values

\* a persist effect of a raw string: setItem when truthy, removeItem otherwise
PersistRaw(value) == IF RawTruthy(value) THEN value ELSE NULL

\* faulty variant: the persist effects without the one of bulkSelectedGames
PersistedWithoutBulkGames(st) ==
    [st EXCEPT
        !.customFieldValues =
            IF customFieldValues' # customFieldValues
            THEN JSONstringify(customFieldValues') ELSE @,
        !.receiptImageUrl =
            IF receiptImageUrl' # receiptImageUrl THEN PersistRaw(receiptImageUrl') ELSE @,
        !.receiptPreview =
            IF receiptPreview' # receiptPreview THEN PersistRaw(receiptPreview') ELSE @,
        !.bulkInputValues =
            IF bulkInputValues' # bulkInputValues
            THEN JSONstringify(bulkInputValues') ELSE @,
        !.paymentMethodUuid =
            IF paymentMethodUuid' # paymentMethodUuid
            THEN PersistRaw(paymentMethodUuid') ELSE @]

\* the six persist effects, each run when its state changed in this step
Persisted(st) ==
    [st EXCEPT
        !.customFieldValues =
            IF customFieldValues' # customFieldValues
            THEN JSONstringify(customFieldValues') ELSE @,
        !.receiptImageUrl =
            IF receiptImageUrl' # receiptImageUrl THEN PersistRaw(receiptImageUrl') ELSE @,
        !.receiptPreview =
            IF receiptPreview' # receiptPreview THEN PersistRaw(receiptPreview') ELSE @,
        !.bulkInputValues =
            IF bulkInputValues' # bulkInputValues
            THEN JSONstringify(bulkInputValues') ELSE @,
        !.bulkSelectedGames =
            IF bulkSelectedGames' # bulkSelectedGames
            THEN JSONstringify(bulkSelectedGames') ELSE @,
        !.paymentMethodUuid =
            IF paymentMethodUuid' # paymentMethodUuid
            THEN PersistRaw(paymentMethodUuid') ELSE @]

\* the six persist effects as they all run after the first render
PersistedOnMount(st) ==
    [st EXCEPT
        !.customFieldValues = JSONstringify(customFieldValues'),
        !.receiptImageUrl   = PersistRaw(receiptImageUrl'),
        !.receiptPreview    = PersistRaw(receiptPreview'),
        !.bulkInputValues   = JSONstringify(bulkInputValues'),
        !.bulkSelectedGames = JSONstringify(bulkSelectedGames'),
        !.paymentMethodUuid = PersistRaw(paymentMethodUuid')]

NoPending ==
    [mountFetch |-> NULL,      \* the id checkExistingOrder is fetching
     closeFetches |-> [id \in OrderIds |-> 0],
                               \* how many modal-close checks are fetching an id
     create |-> <<>>,          \* the createOrder calls in flight
     upload |-> NULL,          \* the file uploadImage is uploading
     readers |-> {}]           \* the files FileReader is reading

Did(op, result, id) == [op |-> op, result |-> result, id |-> id]

NoMsg == <<>>

\* useState initializers, then the effects of the first render
MountFrom(st) ==
    LET values0  == TryParse(st.customFieldValues, EmptyObj)
        bulkVals == TryParse(st.bulkInputValues, EmptyObj)
        bulkSel  == TryParse(st.bulkSelectedGames, <<>>)
        threw    == values0.threw \/ bulkVals.threw \/ bulkSel.threw
        storedOrderId == st.current_order_id
    IN  IF threw
        THEN /\ last' = Did("mount", "threw", NULL)
             /\ UNCHANGED <<mounted, paymentMethods, paymentMethodUuid,
                            customFieldValues, bulkInputValues, bulkSelectedGames,
                            receiptFile, receiptImageUrl, receiptPreview,
                            receiptError, hasCopiedMessage, orderId,
                            isOrderModalOpen, isPlacingOrder, existingOrderStatus,
                            isCheckingExistingOrder, storage, pending>>
        ELSE /\ mounted' = TRUE
             /\ paymentMethods' = <<>>
             /\ paymentMethodUuid' = st.paymentMethodUuid
             /\ bulkInputValues' = bulkVals.value
             /\ bulkSelectedGames' = bulkSel.value
             /\ customFieldValues' =
                    BulkSync(itemsWithCustomFields, bulkSel.value, bulkVals.value,
                             values0.value)
             /\ receiptFile' = NULL
             /\ receiptImageUrl' = st.receiptImageUrl
             /\ receiptPreview' = st.receiptPreview
             /\ receiptError' = NULL
             /\ hasCopiedMessage' = FALSE
             /\ orderId' = NULL
             /\ isOrderModalOpen' = FALSE
             /\ isPlacingOrder' = FALSE
             /\ existingOrderStatus' = NULL
             \* checkExistingOrder: fetch the stored order, or finish at once
             /\ pending' = [NoPending EXCEPT !.mountFetch = storedOrderId]
             /\ isCheckingExistingOrder' = (storedOrderId # NULL)
             /\ storage' = PersistedOnMount(st)
             \* with the kind of entry the field values were read from
             /\ last' = Did("mount", "mounted", st.customFieldValues.t)

\* the page is opened
Mount ==
    /\ ~mounted
    /\ last.op = "none"
    /\ MountFrom(storage)
    /\ UNCHANGED <<cartItems, orderOption, reloadMsg, nOrders, nReloads,
                   isMessengerBrowser, AppVars>>

\* the page is reloaded: what is in memory and in flight is dropped, and the
\* component mounts again from what localStorage holds
Reload ==
    /\ mounted
    /\ nReloads < MaxReloads
    /\ nReloads' = nReloads + 1
    /\ MountFrom(storage)
    /\ reloadMsg' = IF last'.result = "mounted" /\ Len(paymentMethods) > 0
                    THEN generateOrderMessage ELSE NoMsg
    /\ UNCHANGED <<cartItems, orderOption, nOrders, isMessengerBrowser, AppVars>>

\* usePaymentMethods delivers the list; the restore effect runs
PaymentMethodsLoaded ==
    /\ mounted
    /\ Len(paymentMethods) = 0
    /\ paymentMethods' = AllPaymentMethods
    /\ LET saved == storage.paymentMethodUuid
           method == FindPaymentMethod(AllPaymentMethods, saved)
       IN  paymentMethodUuid' =
               IF RawTruthy(saved) /\ method # NoPaymentMethod
               THEN method.uuid_id ELSE paymentMethodUuid
    /\ UNCHANGED <<customFieldValues, bulkInputValues, bulkSelectedGames,
                   receiptFile, receiptImageUrl, receiptPreview>>
    /\ storage' = Persisted(storage)
    /\ last' = Did("paymentMethodsLoaded", "ok", NULL)
    /\ UNCHANGED <<mounted, cartItems, orderOption, receiptError, hasCopiedMessage,
                   orderId, isOrderModalOpen, isPlacingOrder, existingOrderStatus,
                   isCheckingExistingOrder, pending, reloadMsg, nOrders, nReloads,
                   isMessengerBrowser, AppVars>>

-----------------------------------------------------------------------------
(* Form input *)

OrderVars == <<orderId, isOrderModalOpen, isPlacingOrder, existingOrderStatus,
               isCheckingExistingOrder>>
ReceiptVars == <<receiptFile, receiptImageUrl, receiptPreview, receiptError,
                 hasCopiedMessage>>
BulkVars == <<bulkInputValues, bulkSelectedGames>>
Props == <<mounted, cartItems, orderOption, paymentMethods, isMessengerBrowser,
           AppVars>>
Counters == <<nOrders, nReloads>>

\* onClick of a payment method button
SelectPaymentMethod(m) ==
    /\ mounted
    /\ m \in 1..Len(paymentMethods)
    /\ paymentMethodUuid' = paymentMethods[m].uuid_id
    /\ UNCHANGED <<customFieldValues, BulkVars, ReceiptVars>>
    /\ storage' = Persisted(storage)
    /\ last' = Did("selectPaymentMethod", "ok", NULL)
    /\ reloadMsg' = NoMsg
    /\ UNCHANGED <<Props, OrderVars, pending, Counters>>

\* onChange of the input of field number fieldIndex (from 0) of the n-th
\* field-bearing item
CustomFieldInput(n, fieldIndex, newValue) ==
    /\ mounted
    /\ n \in 1..Len(itemsWithCustomFields)
    /\ fieldIndex \in 0..(Len(itemsWithCustomFields[n].customFields) - 1)
    /\ LET item == itemsWithCustomFields[n]
           valueKey == FormValueKey(getOriginalMenuItemId(item.id), fieldIndex,
                                    item.customFields[fieldIndex + 1].key)
       IN  /\ newValue # Get(customFieldValues, valueKey)
           /\ customFieldValues' = Put(customFieldValues, valueKey, newValue)
    /\ UNCHANGED <<paymentMethodUuid, BulkVars, ReceiptVars>>
    /\ storage' = Persisted(storage)
    /\ last' = Did("customFieldInput", "ok", NULL)
    /\ reloadMsg' = NoMsg
    /\ UNCHANGED <<Props, OrderVars, pending, Counters>>

\* onChange of the fallback IGN input, rendered when no item has custom fields
DefaultIgnInput(newValue) ==
    /\ mounted
    /\ ~hasAnyCustomFields
    /\ newValue # Get(customFieldValues, DefaultIgnKey)
    /\ customFieldValues' = Put(customFieldValues, DefaultIgnKey, newValue)
    /\ UNCHANGED <<paymentMethodUuid, BulkVars, ReceiptVars>>
    /\ storage' = Persisted(storage)
    /\ last' = Did("defaultIgnInput", "ok", NULL)
    /\ reloadMsg' = NoMsg
    /\ UNCHANGED <<Props, OrderVars, pending, Counters>>

\* the bulk inputs shown: one per field position of the selected items, with
\* the field of the first selected item at that position (NoField when it has none)
NoField == Field(<<>>, <<>>, FALSE)

\* faulty variant: one bulk input per field of the reference item
bulkInputFieldsOfReference(items, selectedGames) ==
    IF Len(selectedGames) = 0 THEN <<>>
    ELSE LET selectedItems == BulkSelectedItems(items, selectedGames)
         IN  IF Len(selectedItems) = 0 THEN <<>>
             ELSE [i \in 1..Len(selectedItems[1].customFields) |->
                      [index |-> i - 1, field |-> selectedItems[1].customFields[i]]]

bulkInputFieldsOf(items, selectedGames) ==
    IF Len(selectedGames) = 0 THEN <<>>
    ELSE LET selectedItems == BulkSelectedItems(items, selectedGames)
         IN  IF Len(selectedItems) = 0 THEN <<>>
             ELSE LET maxFields ==
                          SetMax({Len(selectedItems[n].customFields) :
                                      n \in 1..Len(selectedItems)})
                      referenceItem == selectedItems[1]
                  IN  [i \in 1..maxFields |->
                          [index |-> i - 1,
                           field |-> IF i <= Len(referenceItem.customFields)
                                     THEN referenceItem.customFields[i]
                                     ELSE NoField]]

bulkInputFields == bulkInputFieldsOf(itemsWithCustomFields, bulkSelectedGames)

\* the Bulk Input section is rendered
BulkSectionShown == Len(itemsWithCustomFields) >= 2

\* onChange of the bulk input at a position, then the bulk sync effect
handleBulkInputChange(fieldKey, value) ==
    /\ mounted
    /\ BulkSectionShown
    /\ Len(bulkSelectedGames) > 0
    /\ \E i \in 1..Len(bulkInputFields) : ToString(bulkInputFields[i].index) = fieldKey
    /\ value # Get(bulkInputValues, fieldKey)
    /\ bulkInputValues' = Put(bulkInputValues, fieldKey, value)
    /\ customFieldValues' =
           BulkSync(itemsWithCustomFields, bulkSelectedGames, bulkInputValues',
                    customFieldValues)
    /\ UNCHANGED <<paymentMethodUuid, bulkSelectedGames, ReceiptVars>>
    /\ storage' = Persisted(storage)
    /\ last' = Did("handleBulkInputChange", "ok", NULL)
    /\ reloadMsg' = NoMsg
    /\ UNCHANGED <<Props, OrderVars, pending, Counters>>

\* onChange of the checkbox of the n-th field-bearing item, then the bulk
\* sync effect
handleBulkGameSelectionChange(n) ==
    /\ mounted
    /\ BulkSectionShown
    /\ n \in 1..Len(itemsWithCustomFields)
    /\ LET originalId == getOriginalMenuItemId(itemsWithCustomFields[n].id)
           checked == originalId \notin SeqToSet(bulkSelectedGames)
       IN  bulkSelectedGames' =
               IF checked THEN Append(bulkSelectedGames, originalId)
               ELSE SelectSeq(bulkSelectedGames, LAMBDA id : id # originalId)
    /\ customFieldValues' =
           BulkSync(itemsWithCustomFields, bulkSelectedGames', bulkInputValues,
                    customFieldValues)
    /\ UNCHANGED <<paymentMethodUuid, bulkInputValues, ReceiptVars>>
    /\ storage' = Persisted(storage)
    /\ last' = Did("handleBulkGameSelectionChange", "ok", NULL)
    /\ reloadMsg' = NoMsg
    /\ UNCHANGED <<Props, OrderVars, pending, Counters>>

-----------------------------------------------------------------------------
(* Receipt *)

\* useImageUpload().uploading
uploadingReceipt == pending.upload # NULL

\* the file input is rendered and enabled
ReceiptInputEnabled == ~RawTruthy(receiptPreview) /\ ~uploadingReceipt

\* handleReceiptUpload up to its await: the preview read and the upload start
handleReceiptUpload(file) ==
    /\ mounted
    /\ receiptError' = NULL
    /\ receiptFile' = file
    /\ pending' = [pending EXCEPT !.readers = @ \cup {file}, !.upload = file]
    /\ UNCHANGED <<paymentMethodUuid, customFieldValues, BulkVars, receiptImageUrl,
                   receiptPreview, hasCopiedMessage>>
    /\ storage' = Persisted(storage)
    /\ last' = Did("handleReceiptUpload", "started", NULL)
    /\ reloadMsg' = NoMsg
    /\ UNCHANGED <<Props, OrderVars, Counters>>

\* reader.onload
ReaderLoaded(file) ==
    /\ mounted
    /\ file \in pending.readers
    /\ receiptPreview' = DataUrl(file)
    /\ pending' = [pending EXCEPT !.readers = @ \ {file}]
    /\ UNCHANGED <<paymentMethodUuid, customFieldValues, BulkVars, receiptFile,
                   receiptImageUrl, receiptError, hasCopiedMessage>>
    /\ storage' = Persisted(storage)
    /\ last' = Did("readerLoaded", "ok", NULL)
    /\ UNCHANGED <<Props, OrderVars, reloadMsg, Counters>>

\* uploadImage resolved: the rest of the try block
UploadResolved ==
    /\ mounted
    /\ pending.upload # NULL
    /\ receiptImageUrl' = UploadedUrl(pending.upload)
    /\ pending' = [pending EXCEPT !.upload = NULL]
    /\ UNCHANGED <<paymentMethodUuid, customFieldValues, BulkVars, receiptFile,
                   receiptPreview, receiptError, hasCopiedMessage>>
    /\ storage' = Persisted(storage)
    /\ last' = Did("uploadResolved", "ok", NULL)
    /\ UNCHANGED <<Props, OrderVars, reloadMsg, Counters>>

\* uploadImage rejected: the catch block
UploadRejected ==
    /\ mounted
    /\ pending.upload # NULL
    /\ receiptError' = "Failed to upload receipt"
    /\ receiptFile' = NULL
    /\ receiptPreview' = NULL
    /\ pending' = [pending EXCEPT !.upload = NULL]
    /\ UNCHANGED <<paymentMethodUuid, customFieldValues, BulkVars, receiptImageUrl,
                   hasCopiedMessage>>
    /\ storage' = Persisted(storage)
    /\ last' = Did("uploadRejected", "ok", NULL)
    /\ UNCHANGED <<Props, OrderVars, reloadMsg, Counters>>

\* the remove button is rendered and enabled
ReceiptRemoveEnabled == RawTruthy(receiptPreview) /\ ~uploadingReceipt

\* faulty variant: handleReceiptRemove without the reset of hasCopiedMessage
handleReceiptRemoveKeepsCopied ==
    /\ mounted
    /\ receiptFile' = NULL
    /\ receiptImageUrl' = NULL
    /\ receiptPreview' = NULL
    /\ receiptError' = NULL
    /\ UNCHANGED <<paymentMethodUuid, customFieldValues, BulkVars, hasCopiedMessage>>
    /\ storage' = Persisted(storage)
    /\ last' = Did("handleReceiptRemove", "ok", receiptImageUrl)
    /\ reloadMsg' = NoMsg
    /\ UNCHANGED <<Props, OrderVars, pending, Counters>>

handleReceiptRemove ==
    /\ mounted
    /\ receiptFile' = NULL
    /\ receiptImageUrl' = NULL
    /\ receiptPreview' = NULL
    /\ receiptError' = NULL
    /\ hasCopiedMessage' = FALSE
    /\ UNCHANGED <<paymentMethodUuid, customFieldValues, BulkVars>>
    /\ storage' = Persisted(storage)
    /\ last' = Did("handleReceiptRemove", "ok", receiptImageUrl)
    /\ reloadMsg' = NoMsg
    /\ UNCHANGED <<Props, OrderVars, pending, Counters>>

-----------------------------------------------------------------------------
(* Validation and order placement *)

\* the value the form keeps for field number fieldIndex (from 0) of an item
FormFieldValue(values, item, fieldIndex) ==
    Get(values, FormValueKey(getOriginalMenuItemId(item.id), fieldIndex,
                             item.customFields[fieldIndex + 1].key))

\* faulty variant: every field counts as required
DetailsValidAllFields(items, values) ==
    IF Len(items) = 0
    THEN Truthy(Trim(Get(values, DefaultIgnKey)))
    ELSE \A n \in 1..Len(items) :
             \A i \in 1..Len(items[n].customFields) :
                 Truthy(Trim(FormFieldValue(values, items[n], i - 1)))

DetailsValid(items, values) ==
    IF Len(items) = 0
    THEN Truthy(Trim(Get(values, DefaultIgnKey)))
    ELSE \A n \in 1..Len(items) :
             \A i \in 1..Len(items[n].customFields) :
                 \/ ~items[n].customFields[i].required
                 \/ Truthy(Trim(FormFieldValue(values, items[n], i - 1)))

isDetailsValid == DetailsValid(itemsWithCustomFields, customFieldValues)

\* the object customerInfo of handlePlaceOrderDirect
RECURSIVE AddFields(_, _, _, _)
AddFields(info, item, values, i) ==
    IF i > Len(item.customFields) THEN info
    ELSE LET value == FormFieldValue(values, item, i - 1)
         IN  AddFields(IF Truthy(value)
                       THEN Put(info, item.customFields[i].label, value) ELSE info,
                       item, values, i + 1)

RECURSIVE AddItems(_, _, _)
AddItems(info, items, values) ==
    IF Len(items) = 0 THEN info
    ELSE AddItems(AddFields(info, Head(items), values, 1), Tail(items), values)

CustomerInfo(items, values, method) ==
    LET base == Put(EmptyObj, <<"Payment Method">>, <<method.name>>)
    IN  IF Len(items) > 0 THEN AddItems(base, items, values)
        ELSE IF Truthy(Get(values, DefaultIgnKey))
        THEN Put(base, <<"IGN">>, Get(values, DefaultIgnKey))
        ELSE base

\* the copy button is rendered and enabled
CopyButtonEnabled ==
    /\ orderOption = "order_via_messenger"
    /\ ~uploadingReceipt /\ RawTruthy(paymentMethodUuid) /\ RawTruthy(receiptImageUrl)

\* handleCopyMessage; the clipboard write succeeds or fails
handleCopyMessage(written) ==
    /\ mounted
    /\ hasCopiedMessage' = IF written THEN TRUE ELSE hasCopiedMessage
    /\ last' = Did("handleCopyMessage", IF written THEN "copied" ELSE "failed", NULL)
    /\ reloadMsg' = NoMsg
    /\ UNCHANGED <<Props, paymentMethodUuid, customFieldValues, BulkVars, receiptFile,
                   receiptImageUrl, receiptPreview, receiptError, OrderVars, storage,
                   pending, Counters>>

\* faulty variant: the Messenger button does not wait for a copy
MessengerButtonEnabledUncopied ==
    /\ orderOption # "place_order"
    /\ RawTruthy(paymentMethodUuid) /\ RawTruthy(receiptImageUrl)
    /\ ~uploadingReceipt

\* the Place Order via Messenger button is rendered and enabled
MessengerButtonEnabled ==
    /\ orderOption # "place_order"
    /\ RawTruthy(paymentMethodUuid) /\ RawTruthy(receiptImageUrl)
    /\ ~uploadingReceipt /\ hasCopiedMessage

\* faulty variant: handlePlaceOrder without its receipt check
handlePlaceOrderNoReceiptCheck ==
    /\ mounted
    /\ IF ~RawTruthy(paymentMethodUuid)
       THEN /\ receiptError' = "Please select a payment method"
            /\ last' = Did("handlePlaceOrder", "rejected", NULL)
       ELSE /\ receiptError' = receiptError
            /\ last' = Did("handlePlaceOrder", "opened", NULL)
    /\ reloadMsg' = NoMsg
    /\ UNCHANGED <<Props, paymentMethodUuid, customFieldValues, BulkVars, receiptFile,
                   receiptImageUrl, receiptPreview, hasCopiedMessage, OrderVars,
                   storage, pending, Counters>>

\* handlePlaceOrder: reject, or open the deep link with the composed message
handlePlaceOrder ==
    /\ mounted
    /\ IF ~RawTruthy(paymentMethodUuid)
       THEN /\ receiptError' = "Please select a payment method"
            /\ last' = Did("handlePlaceOrder", "rejected", NULL)
       ELSE IF ~RawTruthy(receiptImageUrl)
       THEN /\ receiptError' =
                   "Please upload your payment receipt before placing the order"
            /\ last' = Did("handlePlaceOrder", "rejected", NULL)
       ELSE /\ receiptError' = receiptError
            /\ last' = Did("handlePlaceOrder", "opened", NULL)
    /\ reloadMsg' = NoMsg
    /\ UNCHANGED <<Props, paymentMethodUuid, customFieldValues, BulkVars, receiptFile,
                   receiptImageUrl, receiptPreview, hasCopiedMessage, OrderVars,
                   storage, pending, Counters>>

\* the Place Order / Order Again button is rendered
DirectButtonShown ==
    /\ orderOption = "place_order"
    /\ (existingOrderStatus = NULL \/ existingOrderStatus = "rejected")

\* faulty variant: the button stays enabled while an order is being placed
DirectButtonEnabledWhilePlacing ==
    /\ DirectButtonShown
    /\ RawTruthy(paymentMethodUuid) /\ RawTruthy(receiptImageUrl)
    /\ ~uploadingReceipt

\* ... and enabled
DirectButtonEnabled ==
    /\ DirectButtonShown
    /\ RawTruthy(paymentMethodUuid) /\ RawTruthy(receiptImageUrl)
    /\ ~uploadingReceipt /\ ~isPlacingOrder

\* the View Order button is rendered
ViewOrderShown ==
    /\ orderOption = "place_order"
    /\ existingOrderStatus \notin {NULL, "approved", "rejected"}

\* the argument of createOrder
OrderPayload ==
    [id |-> "o" \o ToString(nOrders + 1),
     customer_info |-> CustomerInfo(itemsWithCustomFields, customFieldValues,
                                    selectedPaymentMethod),
     payment_method_id |-> selectedPaymentMethod.uuid_id,
     receipt_url |-> receiptImageUrl]

\* handlePlaceOrderDirect up to its await: reject, or call createOrder
handlePlaceOrderDirect ==
    /\ mounted
    /\ IF ~RawTruthy(paymentMethodUuid)
       THEN /\ receiptError' = "Please select a payment method"
            /\ last' = Did("handlePlaceOrderDirect", "rejected", NULL)
            /\ UNCHANGED <<isPlacingOrder, pending, nOrders>>
       ELSE IF ~RawTruthy(receiptImageUrl)
       THEN /\ receiptError' =
                   "Please upload your payment receipt before placing the order"
            /\ last' = Did("handlePlaceOrderDirect", "rejected", NULL)
            /\ UNCHANGED <<isPlacingOrder, pending, nOrders>>
       ELSE IF selectedPaymentMethod = NoPaymentMethod
       THEN /\ receiptError' = "Please select a payment method"
            /\ last' = Did("handlePlaceOrderDirect", "rejected", NULL)
            /\ UNCHANGED <<isPlacingOrder, pending, nOrders>>
       ELSE /\ nOrders < MaxOrders
            /\ isPlacingOrder' = TRUE
            /\ receiptError' = NULL
            /\ pending' = [pending EXCEPT !.create = Append(@, OrderPayload)]
            /\ nOrders' = nOrders + 1
            /\ last' = Did("handlePlaceOrderDirect", "createOrder", NULL)
    /\ reloadMsg' = NoMsg
    /\ UNCHANGED <<Props, paymentMethodUuid, customFieldValues, BulkVars, receiptFile,
                   receiptImageUrl, receiptPreview, hasCopiedMessage, orderId,
                   isOrderModalOpen, existingOrderStatus, isCheckingExistingOrder,
                   storage, nReloads>>

RemoveAt(seq, i) == SubSeq(seq, 1, i - 1) \o SubSeq(seq, i + 1, Len(seq))

\* what createOrder resolves with: the new order in some status, or null
CreateResults == OrderStatuses \cup {"null"}

\* faulty variant: the new order is tracked in memory but not stored
CreateOrderResolvedNotStored(c, returned) ==
    /\ mounted
    /\ c \in 1..Len(pending.create)
    /\ IF returned # "null"
       THEN /\ orderId' = pending.create[c].id
            /\ existingOrderStatus' = returned
            /\ isOrderModalOpen' = TRUE
       ELSE UNCHANGED <<orderId, existingOrderStatus, isOrderModalOpen>>
    /\ isPlacingOrder' = FALSE
    /\ pending' = [pending EXCEPT !.create = RemoveAt(@, c)]
    /\ last' = Did("createOrderResolved", returned, pending.create[c].id)
    /\ UNCHANGED <<Props, paymentMethodUuid, customFieldValues, BulkVars, ReceiptVars,
                   isCheckingExistingOrder, storage, reloadMsg, Counters>>

\* createOrder resolved, with the new order or with null
CreateOrderResolved(c, returned) ==
    /\ mounted
    /\ c \in 1..Len(pending.create)
    /\ IF returned # "null"
       THEN /\ orderId' = pending.create[c].id
            /\ existingOrderStatus' = returned
            /\ storage' = [storage EXCEPT !.current_order_id = pending.create[c].id]
            /\ isOrderModalOpen' = TRUE
       ELSE UNCHANGED <<orderId, existingOrderStatus, storage, isOrderModalOpen>>
    /\ isPlacingOrder' = FALSE
    /\ pending' = [pending EXCEPT !.create = RemoveAt(@, c)]
    /\ last' = Did("createOrderResolved", returned, pending.create[c].id)
    /\ UNCHANGED <<Props, paymentMethodUuid, customFieldValues, BulkVars, ReceiptVars,
                   isCheckingExistingOrder, reloadMsg, Counters>>

\* createOrder rejected: the catch block, then finally
\* faulty variant: the failure forgets the order tracked so far
CreateOrderRejectedForgetsOrder(c) ==
    /\ mounted
    /\ c \in 1..Len(pending.create)
    /\ receiptError' = "Failed to place order. Please try again."
    /\ isPlacingOrder' = FALSE
    /\ orderId' = NULL
    /\ existingOrderStatus' = NULL
    /\ pending' = [pending EXCEPT !.create = RemoveAt(@, c)]
    /\ last' = Did("createOrderRejected", "error", pending.create[c].id)
    /\ UNCHANGED <<Props, paymentMethodUuid, customFieldValues, BulkVars, receiptFile,
                   receiptImageUrl, receiptPreview, hasCopiedMessage,
                   isOrderModalOpen, isCheckingExistingOrder,
                   storage, reloadMsg, Counters>>

CreateOrderRejected(c) ==
    /\ mounted
    /\ c \in 1..Len(pending.create)
    /\ receiptError' = "Failed to place order. Please try again."
    /\ isPlacingOrder' = FALSE
    /\ pending' = [pending EXCEPT !.create = RemoveAt(@, c)]
    /\ last' = Did("createOrderRejected", "error", pending.create[c].id)
    /\ UNCHANGED <<Props, paymentMethodUuid, customFieldValues, BulkVars, receiptFile,
                   receiptImageUrl, receiptPreview, hasCopiedMessage, orderId,
                   isOrderModalOpen, existingOrderStatus, isCheckingExistingOrder,
                   storage, reloadMsg, Counters>>

-----------------------------------------------------------------------------
(* QR code download *)

\* how the fetch-as-blob attempt can end: the blob is saved, fetch rejects,
\* the response is not ok, or saving the blob throws
BlobOutcomes == {"saved", "fetchRejected", "httpError", "saveThrew"}

\* how the anchor click of the fallback can end
AnchorOutcomes == {"clicked", "threw"}

\* the Download QR button is rendered
DownloadButtonShown ==
    /\ selectedPaymentMethod # NoPaymentMethod
    /\ ~isMessengerBrowser

\* faulty variant: a failed download is logged and nothing else is tried
DownloadQRCodeNoFallback(messenger, blob, anchor) ==
    IF messenger
    THEN [attempts |-> "", ends |-> "returned"]
    ELSE [attempts |-> "blob:" \o blob, ends |-> "returned"]

\* what one call of handleDownloadQRCode attempts, with the outcome of each
\* attempt, and how the call ends
DownloadQRCode(messenger, blob, anchor) ==
    IF messenger
    THEN [attempts |-> "", ends |-> "returned"]
    ELSE IF blob = "saved"
    THEN [attempts |-> "blob:saved", ends |-> "returned"]
    \* catch: console.error, then the fallback in a try/catch of its own
    ELSE [attempts |-> "blob:" \o blob \o ",anchor:" \o anchor,
          ends |-> "returned"]

\* handleDownloadQRCode, with the outcomes of its two attempts
handleDownloadQRCode(blob, anchor) ==
    /\ mounted
    /\ selectedPaymentMethod # NoPaymentMethod
    /\ blob \in BlobOutcomes
    /\ anchor \in AnchorOutcomes
    /\ LET call == DownloadQRCode(isMessengerBrowser, blob, anchor)
       IN  last' = Did("handleDownloadQRCode", call.ends, call.attempts)
    /\ reloadMsg' = NoMsg
    /\ UNCHANGED <<Props, paymentMethodUuid, customFieldValues, BulkVars, ReceiptVars,
                   OrderVars, storage, pending, Counters>>

-----------------------------------------------------------------------------
(* Existing-order recovery *)

\* what fetchOrderById resolves with: an order in some status, or null
FetchResults == OrderStatuses \cup {"null"}

\* faulty variant: the mount-time check forgets every order that is not rejected
MountCheckClearsUnlessRejected(status) == status # "rejected"

\* `if (order.status === 'approved')` of checkExistingOrder
MountCheckClears(status) == status = "approved"

\* faulty variant: the modal-close check forgets rejected orders too
CloseCheckClearsRejectedToo(status) == status \in {"approved", "rejected"}

\* `if (order.status === 'approved')` of the modal's onClose
CloseCheckClears(status) == status = "approved"

\* checkExistingOrder after its await
checkExistingOrder(result) ==
    /\ mounted
    /\ pending.mountFetch # NULL
    /\ result \in FetchResults
    /\ IF result = "null"
       THEN /\ storage' = [storage EXCEPT !.current_order_id = NULL]
            /\ UNCHANGED <<existingOrderStatus, orderId>>
       ELSE IF MountCheckClears(result)
       THEN /\ storage' = [storage EXCEPT !.current_order_id = NULL]
            /\ existingOrderStatus' = NULL
            /\ orderId' = NULL
       ELSE /\ existingOrderStatus' = result
            /\ orderId' = pending.mountFetch
            /\ UNCHANGED storage
    /\ isCheckingExistingOrder' = FALSE
    /\ pending' = [pending EXCEPT !.mountFetch = NULL]
    /\ last' = Did("checkExistingOrder", result, pending.mountFetch)
    /\ UNCHANGED <<Props, paymentMethodUuid, customFieldValues, BulkVars, ReceiptVars,
                   isOrderModalOpen, isPlacingOrder, reloadMsg, Counters>>

\* onClick of View Order
ViewOrder ==
    /\ mounted
    /\ ViewOrderShown
    /\ ~isOrderModalOpen
    /\ isOrderModalOpen' = TRUE
    /\ last' = Did("viewOrder", "ok", NULL)
    /\ reloadMsg' = NoMsg
    /\ UNCHANGED <<Props, paymentMethodUuid, customFieldValues, BulkVars, ReceiptVars,
                   orderId, isPlacingOrder, existingOrderStatus,
                   isCheckingExistingOrder, storage, pending, Counters>>

RECURSIVE SumOver(_, _)
SumOver(f, S) ==
    IF S = {} THEN 0
    ELSE LET x == CHOOSE x \in S : TRUE IN f[x] + SumOver(f, S \ {x})

CloseFetchesInFlight == SumOver(pending.closeFetches, OrderIds)

\* onClose of the order status modal: close, and fetch the tracked order
ModalOnClose ==
    /\ mounted
    /\ isOrderModalOpen
    /\ isOrderModalOpen' = FALSE
    /\ IF orderId # NULL
       THEN /\ CloseFetchesInFlight < MaxCloseFetches
            /\ pending' = [pending EXCEPT !.closeFetches[orderId] = @ + 1]
       ELSE pending' = pending
    /\ last' = Did("modalOnClose", "ok", orderId)
    /\ reloadMsg' = NoMsg
    /\ UNCHANGED <<Props, paymentMethodUuid, customFieldValues, BulkVars, ReceiptVars,
                   orderId, isPlacingOrder, existingOrderStatus,
                   isCheckingExistingOrder, storage, Counters>>

\* the then-callback of the fetch started by onClose
ModalCloseCheck(id, result) ==
    /\ mounted
    /\ id \in OrderIds
    /\ pending.closeFetches[id] > 0
    /\ result \in FetchResults
    /\ IF result = "null"
       THEN UNCHANGED <<existingOrderStatus, orderId, storage>>
       ELSE IF CloseCheckClears(result)
       THEN /\ storage' = [storage EXCEPT !.current_order_id = NULL]
            /\ existingOrderStatus' = NULL
            /\ orderId' = NULL
       ELSE /\ existingOrderStatus' = result
            /\ UNCHANGED <<orderId, storage>>
    /\ pending' = [pending EXCEPT !.closeFetches[id] = @ - 1]
    /\ last' = Did("modalCloseCheck", result, id)
    /\ UNCHANGED <<Props, paymentMethodUuid, customFieldValues, BulkVars, ReceiptVars,
                   isOrderModalOpen, isPlacingOrder, isCheckingExistingOrder,
                   reloadMsg, Counters>>

\* the promise of fetchOrderById can be rejected: order fetches are
\* asynchronous I/O that may fail
fetchOrderByIdMayReject == TRUE

\* checkExistingOrder when its await throws: the rest of the function is
\* skipped, and nothing handles the rejection of checkExistingOrder()
checkExistingOrderRejected ==
    /\ mounted
    /\ fetchOrderByIdMayReject
    /\ pending.mountFetch # NULL
    /\ pending' = [pending EXCEPT !.mountFetch = NULL]
    /\ last' = Did("checkExistingOrder", "unhandled", pending.mountFetch)
    /\ UNCHANGED <<Props, paymentMethodUuid, customFieldValues, BulkVars, ReceiptVars,
                   OrderVars, storage, reloadMsg, Counters>>

\* the fetch started by onClose is rejected: the then-callback is skipped, and
\* the promise has no catch
ModalCloseCheckRejected(id) ==
    /\ mounted
    /\ fetchOrderByIdMayReject
    /\ id \in OrderIds
    /\ pending.closeFetches[id] > 0
    /\ pending' = [pending EXCEPT !.closeFetches[id] = @ - 1]
    /\ last' = Did("modalCloseCheck", "unhandled", id)
    /\ UNCHANGED <<Props, paymentMethodUuid, customFieldValues, BulkVars, ReceiptVars,
                   OrderVars, storage, reloadMsg, Counters>>

-----------------------------------------------------------------------------
(* The buttons as the user can press them *)

UIReceiptUpload(file) == ReceiptInputEnabled /\ handleReceiptUpload(file)
UIReceiptRemove == ReceiptRemoveEnabled /\ handleReceiptRemove
UICopyMessage(written) == CopyButtonEnabled /\ handleCopyMessage(written)
UIPlaceOrder == MessengerButtonEnabled /\ handlePlaceOrder
UIPlaceOrderDirect == DirectButtonEnabled /\ handlePlaceOrderDirect

-----------------------------------------------------------------------------
(* MainApp, the parent of Checkout (App.tsx) *)

Views == {"menu", "cart", "checkout"}

getInitialView(st) ==
    LET v == st.reina_customer_view
    IN  IF v = "menu" \/ v = "cart" \/ v = "checkout" THEN v ELSE "menu"

getInitialCategory(st) ==
    LET c == st.reina_customer_category
    IN  IF c # NULL /\ c # "" THEN c ELSE "all"

getInitialSearch(st) ==
    LET q == st.reina_customer_search
    IN  IF q.t # "absent" THEN q.s ELSE <<>>

\* menuItems.some(item => Boolean(item.popular) === true)
hasPopularItemsOf(menu) == \E i \in 1..Len(menu) : menu[i].popular

\* the two redirect effects, run until nothing changes any more
\* faulty variant: an empty cart does not send the view back to the menu
SettledWithoutCartRedirect(view, category, cart, menu) ==
    [currentView |-> view,
     selectedCategory |->
         IF category = "popular" /\ ~hasPopularItemsOf(menu) /\ Len(menu) > 0
         THEN "all" ELSE category]

Settled(view, category, cart, menu) ==
    [currentView |->
         IF (view = "cart" \/ view = "checkout") /\ Len(cart) = 0
         THEN "menu" ELSE view,
     selectedCategory |->
         IF category = "popular" /\ ~hasPopularItemsOf(menu) /\ Len(menu) > 0
         THEN "all" ELSE category]

\* the state MainApp commits after a handler set view, category, search, cart
\* and menu and left localStorage as st: the redirect effects, then the three
\* persist effects, each of which writes when its value changed in some
\* render on the way
Commit(view, category, search, cart, menu, st) ==
    LET to == Settled(view, category, cart, menu)
    IN  /\ currentView' = to.currentView
        /\ selectedCategory' = to.selectedCategory
        /\ searchQuery' = search
        /\ cartItems' = cart
        /\ menuItems' = menu
        /\ appStorage' =
               [st EXCEPT
                   !.reina_customer_view =
                       IF view # currentView \/ to.currentView # view
                       THEN to.currentView ELSE @,
                   !.reina_customer_category =
                       IF category # selectedCategory \/ to.selectedCategory # category
                       THEN to.selectedCategory ELSE @,
                   !.reina_customer_search =
                       IF search # searchQuery THEN StoredText(search) ELSE @]

\* the state of Checkout that MainApp's handlers leave alone
CheckoutLocal == <<mounted, orderOption, paymentMethods, paymentMethodUuid,
                   customFieldValues, BulkVars, ReceiptVars, isOrderModalOpen,
                   isPlacingOrder, isCheckingExistingOrder, pending, reloadMsg,
                   Counters, isMessengerBrowser>>

handleViewChange(view) ==
    /\ view \in Views
    /\ Commit(view, selectedCategory, searchQuery, cartItems, menuItems, appStorage)
    /\ last' = Did("handleViewChange", view, NULL)
    /\ UNCHANGED <<CheckoutLocal, orderId, existingOrderStatus, storage>>

\* faulty variant: a category click leaves the search query as it is
handleCategoryClickKeepsSearch(categoryId) ==
    /\ Commit(currentView, categoryId, searchQuery, cartItems, menuItems,
              appStorage)
    /\ last' = Did("handleCategoryClick", categoryId, NULL)
    /\ UNCHANGED <<CheckoutLocal, orderId, existingOrderStatus, storage>>

handleCategoryClick(categoryId) ==
    /\ Commit(currentView, categoryId, <<>>, cartItems, menuItems, appStorage)
    /\ last' = Did("handleCategoryClick", categoryId, NULL)
    /\ UNCHANGED <<CheckoutLocal, orderId, existingOrderStatus, storage>>

handleSearchChange(query) ==
    /\ Commit(currentView,
              IF Trim(query) # <<>> THEN "all" ELSE selectedCategory,
              query, cartItems, menuItems, appStorage)
    /\ last' = Did("handleSearchChange", "ok", NULL)
    /\ UNCHANGED <<CheckoutLocal, orderId, existingOrderStatus, storage>>

\* Menu adds an item to the cart and calls onItemAdded
handleItemAdded(item) ==
    /\ currentView = "menu"
    /\ Len(cartItems) < MaxCartLen
    /\ Commit("cart", selectedCategory, searchQuery, Append(cartItems, item),
              menuItems, [appStorage EXCEPT !.reina_skipScrollRestore = "true"])
    /\ last' = Did("handleItemAdded", "ok", NULL)
    /\ UNCHANGED <<CheckoutLocal, orderId, existingOrderStatus, storage>>

\* Cart removes the item at position i (useCart)
removeFromCart(i) ==
    /\ currentView = "cart"
    /\ i \in 1..Len(cartItems)
    /\ Commit(currentView, selectedCategory, searchQuery, RemoveAt(cartItems, i),
              menuItems, appStorage)
    /\ last' = Did("removeFromCart", "ok", NULL)
    /\ UNCHANGED <<CheckoutLocal, orderId, existingOrderStatus, storage>>

\* onSucceededClose of the order status modal: the tracked order is forgotten
\* and onNavigateToMenu clears the cart and shows the menu
onSucceededClose ==
    /\ currentView = "checkout"
    /\ storage' = [storage EXCEPT !.current_order_id = NULL]
    /\ existingOrderStatus' = NULL
    /\ orderId' = NULL
    /\ Commit("menu", selectedCategory, searchQuery, <<>>, menuItems, appStorage)
    /\ last' = Did("onSucceededClose", "ok", NULL)
    /\ UNCHANGED CheckoutLocal

\* what useMenu can deliver
Menus == { << [popular |-> FALSE] >>, << [popular |-> FALSE], [popular |-> TRUE] >> }

\* useMenu delivers the menu
MenuLoaded(menu) ==
    /\ Len(menuItems) = 0
    /\ menu \in Menus
    /\ Commit(currentView, selectedCategory, searchQuery, cartItems, menu, appStorage)
    /\ last' = Did("menuLoaded", "ok", NULL)
    /\ UNCHANGED <<CheckoutLocal, orderId, existingOrderStatus, storage>>

-----------------------------------------------------------------------------
(* Specifications *)

\* what localStorage holds when the page is opened
Stored(method, values, receipt, preview, bulkValues, bulkGames, order) ==
    [paymentMethodUuid |-> method,
     customFieldValues |-> values,
     receiptImageUrl   |-> receipt,
     receiptPreview    |-> preview,
     bulkInputValues   |-> bulkValues,
     bulkSelectedGames |-> bulkGames,
     current_order_id  |-> order]

\* Checkout before its first render
InitCheckout(carts, options, storages) ==
    /\ mounted = FALSE
    /\ cartItems \in carts
    /\ orderOption \in options
    /\ storage \in storages
    /\ paymentMethods = <<>>
    /\ paymentMethodUuid = NULL
    /\ customFieldValues = EmptyObj
    /\ bulkInputValues = EmptyObj
    /\ bulkSelectedGames = <<>>
    /\ receiptFile = NULL
    /\ receiptImageUrl = NULL
    /\ receiptPreview = NULL
    /\ receiptError = NULL
    /\ hasCopiedMessage = FALSE
    /\ orderId = NULL
    /\ isOrderModalOpen = FALSE
    /\ isPlacingOrder = FALSE
    /\ existingOrderStatus = NULL
    /\ isCheckingExistingOrder = TRUE
    /\ pending = NoPending
    /\ last = Did("none", "none", NULL)
    /\ reloadMsg = NoMsg
    /\ nOrders = 0
    /\ nReloads = 0

\* MainApp while it renders Checkout
AppAtCheckout ==
    /\ currentView = "checkout"
    /\ selectedCategory = "all"
    /\ searchQuery = <<>>
    /\ menuItems = <<>>
    /\ appStorage = [reina_customer_view     |-> "checkout",
                     reina_customer_category |-> "all",
                     reina_customer_search   |-> StoredText(<<>>),
                     reina_skipScrollRestore |-> NULL]

InitWith(carts, options, storages) ==
    /\ InitCheckout(carts, options, storages)
    /\ isMessengerBrowser = FALSE
    /\ AppAtCheckout

\* the field values a session left in storage
IgnValues(value) == JSONstringify(Put(EmptyObj, DefaultIgnKey, value))
UidValues(value) ==
    JSONstringify(Put(EmptyObj, FormValueKey(<<"g1">>, 0, <<"uid">>), value))

\* sessions with a payment method and a receipt: with valid and with invalid
\* customer details, with and without an order placed earlier
OrderStorages ==
    { Stored("pm1", v, "https://cdn/r1.png", "data:image/png;f1", Absent, Absent, o) :
        v \in {Absent, IgnValues(<<" ">>), IgnValues(<<"x">>), UidValues(<<"x">>)},
        o \in {NULL, "o0"} }

InitOrder == InitWith({CartPlain, CartOneGame}, {"place_order"}, OrderStorages)

NextOrder ==
    \/ Mount
    \/ PaymentMethodsLoaded
    \/ UIPlaceOrderDirect
    \/ \E c \in 1..MaxOrders, returned \in CreateResults :
           CreateOrderResolved(c, returned)
    \/ \E c \in 1..MaxOrders : CreateOrderRejected(c)
    \/ \E r \in FetchResults : checkExistingOrder(r)
    \/ ViewOrder
    \/ ModalOnClose
    \/ \E id \in OrderIds, r \in FetchResults : ModalCloseCheck(id, r)

\* the direct order flow, as the user can drive it
SpecOrder == InitOrder /\ [][NextOrder]_vars

NextRecovery ==
    \/ Mount
    \/ PaymentMethodsLoaded
    \/ UIPlaceOrderDirect
    \/ \E c \in 1..MaxOrders, returned \in CreateResults :
           CreateOrderResolved(c, returned)
    \/ \E c \in 1..MaxOrders : CreateOrderRejected(c)
    \/ \E r \in FetchResults : checkExistingOrder(r)
    \/ checkExistingOrderRejected
    \/ ViewOrder
    \/ ModalOnClose
    \/ \E id \in OrderIds, r \in FetchResults : ModalCloseCheck(id, r)
    \/ \E id \in OrderIds : ModalCloseCheckRejected(id)

\* the direct order flow, with order fetches that can fail
SpecRecovery == InitOrder /\ [][NextRecovery]_vars

\* sessions with and without a payment method and a receipt
HandlerStorages ==
    { Stored(m, IgnValues(<<"x">>), r, r, Absent, Absent, NULL) :
        m \in {NULL, "pm1"}, r \in {NULL, "https://cdn/r0.png"} }

\* any browser, Messenger's in-app browser included
InitDownload ==
    /\ InitCheckout({CartPlain}, {"order_via_messenger", "place_order"},
                    HandlerStorages)
    /\ isMessengerBrowser \in BOOLEAN
    /\ AppAtCheckout

NextDownload ==
    \/ Mount
    \/ PaymentMethodsLoaded
    \/ \E m \in 1..Len(AllPaymentMethods) : SelectPaymentMethod(m)
    \/ \E blob \in BlobOutcomes, anchor \in AnchorOutcomes :
           handleDownloadQRCode(blob, anchor)

\* the QR code download, the handler called in any browser
SpecDownload == InitDownload /\ [][NextDownload]_vars

InitHandlers ==
    InitWith({CartPlain}, {"order_via_messenger", "place_order"}, HandlerStorages)

NextHandlers ==
    \/ Mount
    \/ PaymentMethodsLoaded
    \/ UIReceiptUpload("f1")
    \/ ReaderLoaded("f1")
    \/ UploadResolved
    \/ UploadRejected
    \/ handleReceiptRemove
    \/ \E written \in BOOLEAN : UICopyMessage(written)
    \/ handlePlaceOrder
    \/ handlePlaceOrderDirect
    \/ \E c \in 1..MaxOrders, returned \in CreateResults :
           CreateOrderResolved(c, returned)
    \/ \E c \in 1..MaxOrders : CreateOrderRejected(c)

\* the handlers as functions: each may be called in any state of the mounted
\* component, also where its button is disabled or not rendered
SpecHandlers == InitHandlers /\ [][NextHandlers]_vars

\* a first visit
FormStorages == {EmptyStorage}

InitForm == InitWith({CartPlain, CartTwoGames}, {"order_via_messenger"}, FormStorages)

NextForm ==
    \/ Mount
    \/ Reload
    \/ PaymentMethodsLoaded
    \/ \E m \in 1..Len(AllPaymentMethods) : SelectPaymentMethod(m)
    \/ \E n \in 1..2, v \in {<<"x">>, <<"y">>} : CustomFieldInput(n, 0, v)
    \/ \E v \in {<<"x">>, <<"y">>, <<>>} : DefaultIgnInput(v)
    \/ \E n \in 1..2 : handleBulkGameSelectionChange(n)
    \/ handleBulkInputChange("0", <<"x">>)
    \/ UIReceiptUpload("f1")
    \/ ReaderLoaded("f1")
    \/ UploadResolved
    \/ UploadRejected
    \/ UIReceiptRemove

\* filling in the form, across reloads of the page
SpecForm == InitForm /\ [][NextForm]_vars

\* what may sit under a JSON key when the page is opened: nothing, an empty
\* text, a text that is not JSON, or what a session stored
StoredValues == {Absent, StoredText(""), StoredText("{oops"), IgnValues(<<"x">>)}
StoredBulkValues ==
    {Absent, StoredText(""), StoredText("{oops"),
     JSONstringify(Put(EmptyObj, "0", <<"y">>))}
StoredBulkGames ==
    {Absent, StoredText(""), StoredText("{oops"), JSONstringify(<< <<"g1">> >>)}

MountStorages ==
    { Stored(m, v, r, r, bv, bg, NULL) :
        m \in {NULL, "pm1"}, v \in StoredValues, r \in {NULL, "", "https://cdn/r0.png"},
        bv \in StoredBulkValues, bg \in StoredBulkGames }

InitMount == InitWith({CartPlain, CartTwoGames}, {"order_via_messenger"}, MountStorages)

NextMount ==
    \/ Mount
    \/ PaymentMethodsLoaded
    \/ \E m \in 1..Len(AllPaymentMethods) : SelectPaymentMethod(m)

\* opening the page over whatever localStorage holds
SpecMount == InitMount /\ [][NextMount]_vars

\* field values under the keys generateOrderMessage reads, as texts of the
\* letters x and y and of the characters the group key is built with
ComposerValues ==
    { (MessageValueKey(<<"g1">>, <<"uid">>) :> a)
        @@ (MessageValueKey(<<"g1">>, <<"server">>) :> b)
        @@ (MessageValueKey(<<"g2">>, <<"uid">>) :> c)
        @@ (MessageValueKey(<<"g2">>, <<"server">>) :> d)
        @@ (MessageValueKey(<<"g2">>, <<"zone">>) :> e) :
        a \in {<<>>, <<"x">>},
        b \in {<<>>, <<"x">>, <<"y">>},
        c \in {<<>>, <<"x">>, <<"x", "|", "Server", ":", "y">>},
        d \in {<<>>, <<"x">>, <<"y">>},
        e \in {<<>>, <<"x">>} }

ComposerStorages ==
    { Stored("pm1", JSONstringify(values), "https://cdn/r0.png", "data:image/png;f0",
             Absent, Absent, NULL) : values \in ComposerValues }

InitComposer == InitWith({CartTwoGames}, {"order_via_messenger"}, ComposerStorages)

NextComposer ==
    \/ Mount
    \/ PaymentMethodsLoaded
    \/ \E written \in BOOLEAN : UICopyMessage(written)

\* generateOrderMessage over the field values it reads
SpecComposer == InitComposer /\ [][NextComposer]_vars

\* a first visit, and a session that left a bulk selection and a bulk value
BulkStorages ==
    { EmptyStorage,
      Stored(NULL, Absent, NULL, NULL, JSONstringify(Put(EmptyObj, "0", <<"x">>)),
             JSONstringify(<< <<"g1">> >>), NULL) }

InitBulk == InitWith({CartOneGame, CartTwoGames}, {"order_via_messenger"}, BulkStorages)

NextBulk ==
    \/ Mount
    \/ Reload
    \/ \E n \in 1..2 : handleBulkGameSelectionChange(n)
    \/ \E k \in {"0", "2"}, v \in {<<"x">>, <<>>} : handleBulkInputChange(k, v)
    \/ \E n \in 1..2, i \in {0, 2} : CustomFieldInput(n, i, <<"y">>)

\* bulk input next to the inputs of the single fields, across reloads
SpecBulk == InitBulk /\ [][NextBulk]_vars

\* what the menu offers
MenuItems == {ItemPlain, ItemG1a, ItemG1b, ItemG2}

\* every cart of up to MaxCartLen of these items, in every order
Carts == UNION { [1..n -> MenuItems] : n \in 1..MaxCartLen }

InitCart == InitWith(Carts, {"order_via_messenger"}, {EmptyStorage})

NextCart ==
    \/ Mount
    \/ PaymentMethodsLoaded
    \/ \E m \in 1..Len(AllPaymentMethods) : SelectPaymentMethod(m)

\* the checkout page over every cart
SpecCart == InitCart /\ [][NextCart]_vars

\* field values under the keys of the form: blank, filled and missing ones
DetailsValues ==
    { (FormValueKey(<<"g1">>, 0, <<"uid">>) :> a)
        @@ (FormValueKey(<<"g1">>, 1, <<"server">>) :> b)
        @@ (FormValueKey(<<"g2">>, 0, <<"uid">>) :> c)
        @@ (FormValueKey(<<"g2">>, 2, <<"zone">>) :> d)
        @@ (DefaultIgnKey :> e) :
        a \in {<<>>, <<" ">>, <<"x">>},
        b \in {<<>>, <<"y">>},
        c \in {<<>>, <<"x">>, <<"y">>},
        d \in {<<>>, <<"x">>},
        e \in {<<>>, <<" ">>, <<"x">>} }

DetailsStorages ==
    { Stored("pm1", JSONstringify(values), "https://cdn/r0.png", "data:image/png;f0",
             Absent, Absent, NULL) : values \in DetailsValues }

InitDetails == InitWith({CartPlain, CartTwoGames}, {"place_order"}, DetailsStorages)

NextDetails ==
    \/ Mount
    \/ PaymentMethodsLoaded
    \/ UIPlaceOrderDirect
    \/ \E c \in 1..MaxOrders, returned \in CreateResults :
           CreateOrderResolved(c, returned)
    \/ \E c \in 1..MaxOrders : CreateOrderRejected(c)

\* placing an order over the customer details a session holds
SpecDetails == InitDetails /\ [][NextDetails]_vars

\* what the three keys of MainApp hold when the page is opened: nothing, or
\* what an earlier visit stored
Categories == {"all", "popular", "games"}
Queries == {<<>>, <<" ">>, <<"x">>}
AppStorages ==
    { [reina_customer_view |-> v, reina_customer_category |-> c,
       reina_customer_search |-> q, reina_skipScrollRestore |-> NULL] :
        v \in Views \cup {NULL},
        c \in {"all", "games", NULL},
        q \in {Absent, StoredText(<<>>)} }
    \cup
    { [reina_customer_view |-> "menu", reina_customer_category |-> "all",
       reina_customer_search |-> StoredText(<<"x">>),
       reina_skipScrollRestore |-> "true"] }

\* MainApp after its first render and the effects of it, over an empty or a
\* filled cart.  What Checkout holds while it is rendered is followed in the
\* specifications above, not here.
InitApp ==
    /\ InitCheckout({<<>>, CartPlain}, {"place_order"}, {EmptyStorage})
    /\ isMessengerBrowser = FALSE
    /\ menuItems = <<>>
    /\ \E st \in AppStorages :
           LET to == Settled(getInitialView(st), getInitialCategory(st),
                             cartItems, <<>>)
           IN  /\ currentView = to.currentView
               /\ selectedCategory = to.selectedCategory
               /\ searchQuery = getInitialSearch(st)
               /\ appStorage =
                      [st EXCEPT
                          !.reina_customer_view = to.currentView,
                          !.reina_customer_category = to.selectedCategory,
                          !.reina_customer_search =
                              StoredText(getInitialSearch(st))]

NextApp ==
    \/ \E view \in Views : handleViewChange(view)
    \/ \E categoryId \in Categories : handleCategoryClick(categoryId)
    \/ \E query \in Queries : handleSearchChange(query)
    \/ handleItemAdded(ItemPlain)
    \/ \E i \in 1..MaxCartLen : removeFromCart(i)
    \/ onSucceededClose
    \/ \E menu \in Menus : MenuLoaded(menu)

\* the customer pages: menu, cart and checkout
SpecApp == InitApp /\ [][NextApp]_vars

InitFallback ==
    InitWith({CartPlain}, {"order_via_messenger"}, DetailsStorages)

\* composing the message for a cart without custom fields
SpecFallback == InitFallback /\ [][NextComposer]_vars

\* a first visit, and a session that left a payment method and a receipt
MessengerStorages ==
    { EmptyStorage,
      Stored("pm1", IgnValues(<<"x">>), "https://cdn/r0.png", "data:image/png;f0",
             Absent, Absent, NULL) }

InitMessenger == InitWith({CartPlain}, {"order_via_messenger"}, MessengerStorages)

NextMessenger ==
    \/ Mount
    \/ Reload
    \/ PaymentMethodsLoaded
    \/ \E m \in 1..Len(AllPaymentMethods) : SelectPaymentMethod(m)
    \/ UIReceiptUpload("f1")
    \/ ReaderLoaded("f1")
    \/ UploadResolved
    \/ UploadRejected
    \/ UIReceiptRemove
    \/ \E written \in BOOLEAN : UICopyMessage(written)
    \/ UIPlaceOrder

\* ordering through the messenger link, as the user can drive it
SpecMessenger == InitMessenger /\ [][NextMessenger]_vars

-----------------------------------------------------------------------------
(* Claims *)

\* C1: direct order submission never calls createOrder while the customer
\* details are invalid (a required field of a field-bearing item is blank, or,
\* with no field-bearing item, the fallback default_ign value is blank).
C1_NoCreateOrderWhileInvalid ==
    (last.op = "handlePlaceOrderDirect" /\ last.result = "createOrder")
        => isDetailsValid

\* C7 as stated: after the mount-time check or the modal-close check fetched an
\* approved order, the stored current_order_id is removed and orderId and
\* existingOrderStatus are null; after it fetched a rejected order, the stored
\* id is kept and orderId and existingOrderStatus hold the order's id and
\* 'rejected'.
C7_AsStated ==
    [][last'.op \in {"checkExistingOrder", "modalCloseCheck"} =>
         /\ last'.result = "approved" =>
                /\ storage'.current_order_id = NULL
                /\ orderId' = NULL
                /\ existingOrderStatus' = NULL
         /\ last'.result = "rejected" =>
                /\ storage'.current_order_id = storage.current_order_id
                /\ orderId' = last'.id
                /\ existingOrderStatus' = "rejected"]_vars

\* C7 amended: as C7, except that after the modal-close check fetched a
\* rejected order orderId is left as it was (the check never assigns it); it
\* is the fetched order's id after the mount-time check.
C7_ApprovedClearsRejectedKeeps ==
    [][last'.op \in {"checkExistingOrder", "modalCloseCheck"} =>
         /\ last'.result = "approved" =>
                /\ storage'.current_order_id = NULL
                /\ orderId' = NULL
                /\ existingOrderStatus' = NULL
         /\ last'.result = "rejected" =>
                /\ storage'.current_order_id = storage.current_order_id
                /\ existingOrderStatus' = "rejected"
                /\ orderId' = IF last'.op = "checkExistingOrder"
                              THEN last'.id ELSE orderId]_vars

\* a rejected order was fetched by the modal-close check and is still tracked
C7_Witness ==
    /\ last = Did("modalCloseCheck", "rejected", "o1")
    /\ orderId = "o1"
    /\ existingOrderStatus = "rejected"
    /\ storage.current_order_id = "o1"

\* C8: on mount with a stored current_order_id, when the fetch returns no order
\* the stored id is removed and orderId and existingOrderStatus stay as they
\* were; when it returns an order that is neither approved nor rejected,
\* existingOrderStatus and orderId are set to that order and the UI offers
\* View Order and not the place-order button.
C8_MountCheckMissAndInFlight ==
    [][last'.op = "checkExistingOrder" =>
         /\ last'.result = "null" =>
                /\ storage'.current_order_id = NULL
                /\ UNCHANGED <<orderId, existingOrderStatus>>
                /\ (nOrders = 0 => orderId' = NULL /\ existingOrderStatus' = NULL)
         /\ last'.result \notin {"null", "approved", "rejected"} =>
                /\ existingOrderStatus' = last'.result
                /\ orderId' = last'.id
                /\ ViewOrderShown'
                /\ ~DirectButtonShown']_vars

\* the mount-time check found the stored order in flight
C8_Witness ==
    /\ last = Did("checkExistingOrder", "pending", "o0")
    /\ orderId = "o0"
    /\ existingOrderStatus = "pending"
    /\ storage.current_order_id = "o0"

\* the mount-time check found no order
C8_WitnessMiss ==
    /\ last = Did("checkExistingOrder", "null", "o0")
    /\ storage.current_order_id = NULL
    /\ orderId = NULL

\* C4: in both submission modes, when no payment method is selected or no
\* receipt reference exists the submission is rejected: receiptError is set, no
\* deep link is opened, createOrder is not called, and all other state is
\* left unchanged.
C4_RejectedSubmissionHasNoSideEffect ==
    [][(/\ last'.op \in {"handlePlaceOrder", "handlePlaceOrderDirect"}
        /\ (~RawTruthy(paymentMethodUuid) \/ ~RawTruthy(receiptImageUrl))) =>
         /\ last'.result = "rejected"
         /\ receiptError' \in {"Please select a payment method",
               "Please upload your payment receipt before placing the order"}
         /\ pending'.create = pending.create
         /\ UNCHANGED <<orderId, existingOrderStatus, storage, customFieldValues,
                        paymentMethodUuid, receiptFile, receiptImageUrl,
                        receiptPreview, hasCopiedMessage, bulkInputValues,
                        bulkSelectedGames, isOrderModalOpen, isPlacingOrder,
                        isCheckingExistingOrder, pending, nOrders>>]_vars

\* a direct submission was rejected for its missing receipt
C4_Witness ==
    /\ last = Did("handlePlaceOrderDirect", "rejected", NULL)
    /\ paymentMethodUuid = "pm1"
    /\ receiptImageUrl = NULL
    /\ receiptError = "Please upload your payment receipt before placing the order"

\* a messenger submission was rejected for its missing payment method
C4_WitnessMessenger ==
    /\ last = Did("handlePlaceOrder", "rejected", NULL)
    /\ paymentMethodUuid = NULL
    /\ receiptImageUrl # NULL
    /\ receiptError = "Please select a payment method"

\* C5: handleReceiptRemove clears the receipt file, the receipt reference, the
\* receipt preview and hasCopiedMessage in one step, and leaves the payment
\* method, the field values and the bulk state unchanged.
C5_ReceiptRemoveClearsAll ==
    [][last'.op = "handleReceiptRemove" =>
         /\ receiptFile' = NULL
         /\ receiptImageUrl' = NULL
         /\ receiptPreview' = NULL
         /\ hasCopiedMessage' = FALSE
         /\ UNCHANGED <<paymentMethodUuid, customFieldValues, bulkInputValues,
                        bulkSelectedGames>>]_vars

\* a receipt that was uploaded has been removed
C5_Witness ==
    /\ last = Did("handleReceiptRemove", "ok", "https://cdn/r1.png")
    /\ receiptFile = NULL /\ receiptImageUrl = NULL /\ receiptPreview = NULL
    /\ ~hasCopiedMessage
    /\ paymentMethodUuid = "pm1"
    /\ customFieldValues # EmptyObj

\* sub is in text from position p on
OccursAt(text, sub, p) ==
    /\ p + Len(sub) - 1 <= Len(text)
    /\ SubSeq(text, p, p + Len(sub) - 1) = sub

\* text has the name, after it the label, and after that the value
NameThenAnswer(text, name, label, value) ==
    \E p, q, r \in 1..Len(text) :
        /\ OccursAt(text, name, p)
        /\ q >= p + Len(name) /\ OccursAt(text, label, q)
        /\ r >= q + Len(label) /\ OccursAt(text, value, r)

\* the entry the form inputs and the bulk fan-out write for a field is filled
FormFieldFilled(n, i) ==
    Truthy(FormFieldValue(customFieldValues, itemsWithCustomFields[n], i - 1))

\* C2: for every field-bearing item (deduplicated by original id) and every
\* custom field of it whose entry under the form's key (original id, field
\* position, field key) is non-empty, the text of generateOrderMessage contains
\* the item's name followed by the field's label and value.
C2_MessageContainsFilledFields ==
    mounted =>
        \A n \in 1..Len(itemsWithCustomFields) :
            \A i \in 1..Len(itemsWithCustomFields[n].customFields) :
                FormFieldFilled(n, i) =>
                    NameThenAnswer(generateOrderMessage,
                                   itemsWithCustomFields[n].name,
                                   itemsWithCustomFields[n].customFields[i].label,
                                   FormFieldValue(customFieldValues,
                                                  itemsWithCustomFields[n], i - 1))

\* C6: after a reload with the same cart and payment-method list, once the
\* effects have settled, generateOrderMessage returns the text it returned
\* before the reload.
C6_ReloadKeepsMessage ==
    (reloadMsg # NoMsg /\ Len(paymentMethods) > 0) => generateOrderMessage = reloadMsg

\* a session with a payment method, an IGN and a receipt in storage was reloaded
C6_Witness ==
    /\ reloadMsg # NoMsg
    /\ nReloads > 0
    /\ last = Did("paymentMethodsLoaded", "ok", NULL)
    /\ storage.paymentMethodUuid = "pm2"
    /\ storage.receiptImageUrl = "https://cdn/r1.png"
    /\ Get(customFieldValues, DefaultIgnKey) = <<"y">>
    /\ generateOrderMessage = reloadMsg

\* C9: once the persist effects have run, each of the six keys holds the
\* in-memory value: the JSON text of the field values, bulk values and bulk
\* games, and the payment method id, receipt reference and preview, whose key
\* is absent exactly when the value is null or empty.
C9_StorageMirrorsState ==
    mounted =>
        /\ storage.customFieldValues = JSONstringify(customFieldValues)
        /\ storage.bulkInputValues = JSONstringify(bulkInputValues)
        /\ storage.bulkSelectedGames = JSONstringify(bulkSelectedGames)
        /\ storage.paymentMethodUuid =
               (IF paymentMethodUuid \in {NULL, ""} THEN NULL ELSE paymentMethodUuid)
        /\ storage.receiptImageUrl =
               (IF receiptImageUrl \in {NULL, ""} THEN NULL ELSE receiptImageUrl)
        /\ storage.receiptPreview =
               (IF receiptPreview \in {NULL, ""} THEN NULL ELSE receiptPreview)

\* all six values were changed and are in storage
C9_Witness ==
    /\ mounted
    /\ last.op = "handleBulkGameSelectionChange"
    /\ storage.bulkSelectedGames = JSONstringify(<< <<"g2">>, <<"g1">> >>)
    /\ storage.bulkInputValues = JSONstringify(Put(EmptyObj, "0", <<"x">>))
    /\ storage.paymentMethodUuid = "pm2"
    /\ storage.receiptImageUrl = "https://cdn/r1.png"
    /\ storage.receiptPreview = "data:image/png;f1"
    /\ storage.customFieldValues = JSONstringify(customFieldValues)
    /\ customFieldValues # EmptyObj

\* the stored text can be parsed
Parseable(stored) == stored.t = "json"

\* C10: on mount the persisted state is initialized from local storage, and
\* where the stored value is absent or cannot be parsed the state gets its
\* empty default (null, {} or []; the field values then hold what the bulk
\* fan-out of the first render adds to {}), and the mount does not fail.
C10_InitializersDefault ==
    [][last'.op = "mount" =>
         /\ last'.result = "mounted"
         /\ mounted'
         /\ storage.paymentMethodUuid = NULL => paymentMethodUuid' = NULL
         /\ storage.receiptImageUrl = NULL => receiptImageUrl' = NULL
         /\ ~Parseable(storage.bulkInputValues) => bulkInputValues' = EmptyObj
         /\ ~Parseable(storage.bulkSelectedGames) => bulkSelectedGames' = <<>>
         /\ ~Parseable(storage.customFieldValues) =>
                customFieldValues' =
                    BulkSync(itemsWithCustomFields, bulkSelectedGames',
                             bulkInputValues', EmptyObj)
         /\ Parseable(storage.bulkInputValues) =>
                bulkInputValues' = storage.bulkInputValues.j
         /\ Parseable(storage.bulkSelectedGames) =>
                bulkSelectedGames' = storage.bulkSelectedGames.j
         /\ storage.paymentMethodUuid # NULL =>
                paymentMethodUuid' = storage.paymentMethodUuid
         /\ storage.receiptImageUrl # NULL =>
                receiptImageUrl' = storage.receiptImageUrl]_vars

\* the page was opened over a text that is not JSON and got the defaults
C10_Witness ==
    /\ last = Did("mount", "mounted", "text")
    /\ mounted
    /\ customFieldValues = EmptyObj
    /\ bulkInputValues = EmptyObj
    /\ bulkSelectedGames = <<>>
    /\ paymentMethodUuid = NULL
    /\ receiptImageUrl = NULL

\* the blocks of the message that list the name of the n-th field-bearing item
BlocksOf(n) ==
    LET blocks == gamesByFieldValues(cartItems, customFieldValues)
    IN  {g \in 1..Len(blocks) :
            itemsWithCustomFields[n].name \in SeqToSet(blocks[g].games)}

\* C3: field-bearing items whose lists of filled (label, value) pairs are
\* identical are emitted as one block, their names followed once by their
\* answers, and two items whose lists differ are never in the same block.
C3_BlocksGroupIdenticalAnswers ==
    mounted =>
        LET blocks == gamesByFieldValues(cartItems, customFieldValues)
            Answers(n) == FilledFields(itemsWithCustomFields[n], customFieldValues)
        IN  \A n, m \in 1..Len(itemsWithCustomFields) :
                /\ Len(Answers(n)) > 0 =>
                       /\ Cardinality(BlocksOf(n)) = 1
                       /\ \A g \in BlocksOf(n) : blocks[g].fields = Answers(n)
                /\ (Len(Answers(n)) > 0 /\ Answers(n) = Answers(m)) =>
                       BlocksOf(n) = BlocksOf(m)
                /\ Answers(n) # Answers(m) => BlocksOf(n) \cap BlocksOf(m) = {}

\* C11: after a receipt upload failed and both callbacks of that upload (the
\* preview read and the upload rejection) have run, in either order,
\* receiptFile and receiptPreview are null and receiptError is a non-empty
\* string.
C11_FailedUploadClearsPreview ==
    (/\ last.op \in {"uploadRejected", "readerLoaded"}
     /\ receiptError = "Failed to upload receipt"
     /\ pending.upload = NULL
     /\ pending.readers = {}) =>
        (receiptFile = NULL /\ receiptPreview = NULL)

\* key begins with prefix
HasPrefix(key, prefix) ==
    Len(key) >= Len(prefix) /\ SubSeq(key, 1, Len(prefix)) = prefix

\* the entry under key is the same before and after the step
EntryUnchanged(key) ==
    /\ (key \in DOMAIN customFieldValues') = (key \in DOMAIN customFieldValues)
    /\ Get(customFieldValues', key) = Get(customFieldValues, key)

\* the keys of the field-value map before or after the step
EntryKeys == (DOMAIN customFieldValues) \cup (DOMAIN customFieldValues')

\* C12: when the bulk value at position p changes to v, after the sync effect
\* every bulk-selected item with a custom field at position p has its entry
\* (original id, p, field key) equal to v; for a selected item without a field
\* at p no entry of position p is created or changed; the entries of items that
\* are not bulk-selected are unchanged.
C12_BulkFanOut ==
    [][last'.op = "handleBulkInputChange" =>
         \A k \in DOMAIN bulkInputValues' :
             bulkInputValues'[k] # Get(bulkInputValues, k) =>
                 \A n \in 1..Len(itemsWithCustomFields) :
                     LET item == itemsWithCustomFields[n]
                         id == getOriginalMenuItemId(item.id)
                         p == ParseInt(k)
                         selected == id \in SeqToSet(bulkSelectedGames)
                     IN  /\ (selected /\ p < Len(item.customFields)) =>
                                LET key == FormValueKey(id, p, item.customFields[p + 1].key)
                                IN  /\ key \in DOMAIN customFieldValues'
                                    /\ customFieldValues'[key] = bulkInputValues'[k]
                         /\ (selected /\ p >= Len(item.customFields)) =>
                                \A key \in EntryKeys :
                                    HasPrefix(key, id \o <<"_", ToString(p), "_">>)
                                        => EntryUnchanged(key)
                         /\ ~selected =>
                                \A key \in EntryKeys :
                                    HasPrefix(key, id \o <<"_">>) => EntryUnchanged(key)
    ]_vars

\* a bulk value at position 2 reached Game Two and left Game One, which has
\* two fields, alone
C12_Witness ==
    /\ last.op = "handleBulkInputChange"
    /\ cartItems = CartTwoGames
    /\ Len(bulkSelectedGames) = 2
    /\ Get(bulkInputValues, "2") = <<"x">>
    /\ Get(customFieldValues, FormValueKey(<<"g2">>, 2, <<"zone">>)) = <<"x">>
    /\ \A key \in DOMAIN customFieldValues : ~HasPrefix(key, <<"g1", "_", "2", "_">>)

\* the positions in itemsWithCustomFields of the bulk-selected items
SelectedPositions ==
    {n \in 1..Len(itemsWithCustomFields) :
        getOriginalMenuItemId(itemsWithCustomFields[n].id) \in SeqToSet(bulkSelectedGames)}

\* C13: the number of bulk input fields is the maximum custom-field count over
\* the bulk-selected field-bearing items (zero when none is selected); the
\* field at position i is the first selected item's field at i, or a
\* placeholder when that item has no field at i.
C13_BulkInputFields ==
    mounted =>
        IF SelectedPositions = {} THEN Len(bulkInputFields) = 0
        ELSE LET first == itemsWithCustomFields[SetMin(SelectedPositions)]
             IN  /\ Len(bulkInputFields) =
                        SetMax({Len(itemsWithCustomFields[n].customFields) :
                                   n \in SelectedPositions})
                 /\ \A i \in 1..Len(bulkInputFields) :
                        /\ bulkInputFields[i].index = i - 1
                        /\ bulkInputFields[i].field =
                               (IF i <= Len(first.customFields)
                                THEN first.customFields[i] ELSE NoField)

\* the games with two and with three fields are selected: three bulk inputs,
\* the third a placeholder
C13_Witness ==
    /\ last.op = "handleBulkGameSelectionChange"
    /\ bulkSelectedGames = << <<"g2">>, <<"g1">> >>
    /\ Len(bulkInputFields) = 3
    /\ bulkInputFields[1].field = FieldUid
    /\ bulkInputFields[3].field = NoField

\* C14: in a state with fewer than two distinct field-bearing items, also one
\* restored from a storage that carries bulk selections and bulk values, the
\* bulk state never modifies the field-value map: a mount leaves it as stored,
\* and it changes by the inputs of the single fields only.
C14_NoBulkBelowTwoItems ==
    [][(Len(itemsWithCustomFields) < 2
        /\ last'.op \notin {"customFieldInput", "defaultIgnInput"}) =>
         customFieldValues' =
             (IF last'.op = "mount"
              THEN TryParse(storage.customFieldValues, EmptyObj).value
              ELSE customFieldValues)]_vars

\* the positions in the cart of the items with custom fields
FieldBearing == {i \in 1..Len(cartItems) : Len(cartItems[i].customFields) > 0}

\* C15: itemsWithCustomFields has exactly one entry for each distinct original
\* menu item id among the cart items with at least one custom field, that
\* entry being the first such cart item in cart order; cart items without
\* custom fields never appear in it.
C15_OneEntryPerOriginalId ==
    LET ids == {getOriginalMenuItemId(cartItems[i].id) : i \in FieldBearing}
        EntriesOf(id) ==
            {n \in 1..Len(itemsWithCustomFields) :
                getOriginalMenuItemId(itemsWithCustomFields[n].id) = id}
        FirstOf(id) ==
            cartItems[SetMin({i \in FieldBearing :
                                 getOriginalMenuItemId(cartItems[i].id) = id})]
    IN  /\ \A id \in ids :
               /\ Cardinality(EntriesOf(id)) = 1
               /\ \A n \in EntriesOf(id) : itemsWithCustomFields[n] = FirstOf(id)
        /\ \A n \in 1..Len(itemsWithCustomFields) :
               /\ Len(itemsWithCustomFields[n].customFields) > 0
               /\ getOriginalMenuItemId(itemsWithCustomFields[n].id) \in ids

\* two packages of one game around an item without fields: one entry, the
\* package that comes first in the cart
C15_Witness ==
    /\ mounted
    /\ cartItems = <<ItemG1b, ItemPlain, ItemG1a>>
    /\ itemsWithCustomFields = <<ItemG1b>>

\* the entry is non-blank after trimming
NonBlank(values, key) == Trim(Get(values, key)) # <<>>

\* C16: isDetailsValid is truthy exactly when no cart item has custom fields
\* and the 'default_ign' value is non-blank after trimming, or some item has
\* custom fields and every required field of every field-bearing item has a
\* non-blank entry under (original id, field position, field key).
C16_DetailsValidExactly ==
    mounted =>
        (isDetailsValid <=>
            IF \A i \in 1..Len(cartItems) : Len(cartItems[i].customFields) = 0
            THEN NonBlank(customFieldValues, DefaultIgnKey)
            ELSE \A n \in 1..Len(itemsWithCustomFields) :
                     LET item == itemsWithCustomFields[n]
                     IN  \A i \in 1..Len(item.customFields) :
                             item.customFields[i].required =>
                                 NonBlank(customFieldValues,
                                          FormValueKey(getOriginalMenuItemId(item.id),
                                                       i - 1, item.customFields[i].key)))

\* the details are valid with the required fields filled and a field that is
\* not required left empty
C16_Witness ==
    /\ mounted
    /\ cartItems = CartTwoGames
    /\ isDetailsValid
    /\ Get(customFieldValues, FormValueKey(<<"g1">>, 1, <<"server">>)) = <<>>
    /\ Get(customFieldValues, DefaultIgnKey) = <<>>

\* the details are invalid for a required field that holds a blank
C16_WitnessBlank ==
    /\ mounted
    /\ cartItems = CartTwoGames
    /\ ~isDetailsValid
    /\ Get(customFieldValues, FormValueKey(<<"g1">>, 0, <<"uid">>)) = <<" ">>
    /\ Get(customFieldValues, FormValueKey(<<"g2">>, 0, <<"uid">>)) = <<"x">>
    /\ Get(customFieldValues, FormValueKey(<<"g2">>, 2, <<"zone">>)) = <<"x">>

\* C17: the customer-info mapping passed to createOrder contains the selected
\* payment method's name and, when some item has custom fields, the value of
\* every filled custom field of every field-bearing item under that field's
\* label; when no item has custom fields, the non-empty 'default_ign' value
\* under 'IGN'.
C17_CustomerInfoKeepsEveryValue ==
    [][(last'.op = "handlePlaceOrderDirect" /\ last'.result = "createOrder") =>
         LET info == pending'.create[Len(pending'.create)].customer_info
         IN  /\ Get(info, <<"Payment Method">>) = <<selectedPaymentMethod.name>>
             /\ IF hasAnyCustomFields
                THEN \A n \in 1..Len(itemsWithCustomFields) :
                         LET item == itemsWithCustomFields[n]
                         IN  \A i \in 1..Len(item.customFields) :
                                 LET value == FormFieldValue(customFieldValues, item, i - 1)
                                 IN  Truthy(value) =>
                                         Get(info, item.customFields[i].label) = value
                ELSE Truthy(Get(customFieldValues, DefaultIgnKey)) =>
                         Get(info, <<"IGN">>) = Get(customFieldValues, DefaultIgnKey)
    ]_vars

\* C18: when createOrder returns an order, afterwards orderId is the returned
\* id, existingOrderStatus the returned status, the stored current_order_id
\* the returned id, and the order-status modal is open.
C18_NewOrderIsTracked ==
    [][(last'.op = "createOrderResolved" /\ last'.result # "null") =>
         /\ orderId' = last'.id
         /\ existingOrderStatus' = last'.result
         /\ storage'.current_order_id = last'.id
         /\ isOrderModalOpen']_vars

\* the order o1 was created while the order o0 of an earlier visit was stored
C18_Witness ==
    /\ last = Did("createOrderResolved", "pending", "o1")
    /\ orderId = "o1"
    /\ existingOrderStatus = "pending"
    /\ storage.current_order_id = "o1"
    /\ isOrderModalOpen
    /\ ~isPlacingOrder

\* C19: when createOrder fails, receiptError is the generic 'try again'
\* message, and neither the call nor its failure changes orderId,
\* existingOrderStatus, the stored current_order_id, the payment method, the
\* field values, the bulk state or the receipt reference.
C19_FailedOrderKeepsState ==
    [][(\/ last'.op = "createOrderRejected"
        \/ (last'.op = "handlePlaceOrderDirect" /\ last'.result = "createOrder")) =>
         /\ last'.op = "createOrderRejected" =>
                receiptError' = "Failed to place order. Please try again."
         /\ UNCHANGED <<orderId, existingOrderStatus, storage, paymentMethodUuid,
                        customFieldValues, bulkInputValues, bulkSelectedGames,
                        receiptImageUrl>>]_vars

\* an order failed while the rejected order of an earlier visit was tracked
C19_Witness ==
    /\ last = Did("createOrderRejected", "error", "o1")
    /\ receiptError = "Failed to place order. Please try again."
    /\ orderId = "o0"
    /\ existingOrderStatus = "rejected"
    /\ storage.current_order_id = "o0"
    /\ paymentMethodUuid = "pm1"
    /\ receiptImageUrl = "https://cdn/r1.png"
    /\ ~isPlacingOrder

\* C20: in messenger mode the deep link is opened only where hasCopiedMessage
\* is true; the flag turns true only by a successful clipboard copy, is false
\* after a mount and after the receipt is removed, and is not set by a failed
\* clipboard write.
C20_LinkOnlyAfterCopy ==
    [][/\ (last'.op = "handlePlaceOrder" /\ last'.result = "opened") =>
              (hasCopiedMessage /\ hasCopiedMessage')
       /\ (hasCopiedMessage' /\ ~hasCopiedMessage) =>
              last' = Did("handleCopyMessage", "copied", NULL)
       /\ last'.op \in {"mount", "handleReceiptRemove"} => ~hasCopiedMessage'
       /\ (last'.op = "handleCopyMessage" /\ last'.result = "failed") =>
              hasCopiedMessage' = hasCopiedMessage]_vars

\* the link was opened after a copy
C20_Witness ==
    /\ last = Did("handlePlaceOrder", "opened", NULL)
    /\ orderOption = "order_via_messenger"
    /\ hasCopiedMessage
    /\ receiptImageUrl = "https://cdn/r1.png"

\* a clipboard write failed and the flag stayed down
C20_WitnessFailedCopy ==
    /\ last = Did("handleCopyMessage", "failed", NULL)
    /\ ~hasCopiedMessage
    /\ ~MessengerButtonEnabled

-----------------------------------------------------------------------------
(* C21: no asynchronous path throws past its handler: once the order fetch of
   the mount-time check has settled (with an order, with nothing, or with a
   failure) isCheckingExistingOrder is false, and no failure of an order
   fetch is left unhandled. *)
C21_NoUnhandledFetchFailure ==
    /\ (mounted /\ pending.mountFetch = NULL) => ~isCheckingExistingOrder
    /\ last.result # "unhandled"

-----------------------------------------------------------------------------
\* the attempts of a call in which the download failed and the fallback ran
FallbackAttempts ==
    { "blob:" \o blob \o ",anchor:" \o anchor :
        blob \in BlobOutcomes \ {"saved"}, anchor \in AnchorOutcomes }

(* C22 as stated: whenever the fetch-as-blob download of handleDownloadQRCode
   does not succeed, also when it is skipped in Messenger's in-app browser,
   the anchor-click fallback is attempted, and the call returns. *)
C22_AsStated ==
    (last.op = "handleDownloadQRCode" /\ last.id # "blob:saved") =>
        /\ last.id \in FallbackAttempts
        /\ last.result = "returned"

(* C22 as amended: in Messenger's in-app browser handleDownloadQRCode attempts
   nothing; elsewhere it attempts the fetch-as-blob download and, whenever
   that does not succeed, the anchor-click fallback; the call returns
   whatever the attempts do. *)
C22_FallbackOutsideMessenger ==
    last.op = "handleDownloadQRCode" =>
        /\ last.result = "returned"
        /\ isMessengerBrowser => last.id = ""
        /\ ~isMessengerBrowser => last.id \in {"blob:saved"} \cup FallbackAttempts

\* both attempts failed, and the call returned
C22_Witness ==
    /\ last = Did("handleDownloadQRCode", "returned",
                  "blob:fetchRejected,anchor:threw")
    /\ ~isMessengerBrowser

\* the handler was called in Messenger's in-app browser
C22_WitnessMessenger ==
    /\ last = Did("handleDownloadQRCode", "returned", "")
    /\ isMessengerBrowser

-----------------------------------------------------------------------------
\* the text before and after the custom-fields section in the message
BeforeSection == <<"Reina Shop ORDER", "\n", "\n">>
AfterSection == <<"\n", "\n", "ORDER DETAILS:">>

(* C23: for a cart with no field-bearing item, the custom-fields section of
   the message is exactly one line, 'IGN: ' followed by the current value
   under 'default_ign' (nothing when there is no such entry), whatever else
   the field-value map holds. *)
C23_FallbackIgnLine ==
    (mounted /\ FieldBearing = {}) =>
        LET ign == IF DefaultIgnKey \in DOMAIN customFieldValues
                   THEN customFieldValues[DefaultIgnKey] ELSE <<>>
            line == <<"IGN: ">> \o ign
        IN  /\ "\n" \notin SeqToSet(line)
            /\ OccursAt(generateOrderMessage,
                        BeforeSection \o line \o AfterSection, 1)

\* the message was copied with an in-game name and entries of other fields
C23_Witness ==
    /\ last.op = "handleCopyMessage"
    /\ FieldBearing = {}
    /\ Get(customFieldValues, DefaultIgnKey) = <<"x">>
    /\ Get(customFieldValues, FormValueKey(<<"g1">>, 0, <<"uid">>)) = <<"x">>

\* ... and with no in-game name
C23_WitnessUnset ==
    /\ last.op = "handleCopyMessage"
    /\ FieldBearing = {}
    /\ Get(customFieldValues, DefaultIgnKey) = <<>>
    /\ Get(customFieldValues, FormValueKey(<<"g2">>, 0, <<"uid">>)) = <<"y">>

-----------------------------------------------------------------------------
\* 'label: value' for each field, with sep between two of them
LabelValuePairs(fields, sep) ==
    Join([i \in 1..Len(fields) |-> fields[i].label \o <<":", " ">> \o fields[i].value],
         sep)

\* 'A, B & C: value'
LabelsThenValue(fields) ==
    Join([i \in 1..(Len(fields) - 1) |-> fields[i].label], <<",", " ">>)
        \o <<" ", "&", " ">> \o fields[Len(fields)].label
        \o <<":", " ">> \o fields[1].value

SameAnswers(fields) ==
    Len(fields) > 1 /\ \A i \in 1..Len(fields) : fields[i].value = fields[1].value

\* the message has the block: its names, then the given answers, each on
\* lines of their own
MessageHasBlock(block, answers) ==
    \E p \in 1..Len(generateOrderMessage) :
        OccursAt(generateOrderMessage,
                 <<"\n">> \o Join(block.games, <<"\n">>) \o <<"\n">> \o answers
                     \o <<"\n">>, p)

(* C24 as stated: a block with more than one filled field, all holding the
   same value, has the one line 'A, B & C: value'; any other block lists each
   filled field as its own 'label: value' line. *)
C24_AsStated ==
    mounted =>
        LET blocks == gamesByFieldValues(cartItems, customFieldValues)
        IN  \A g \in 1..Len(blocks) :
                MessageHasBlock(blocks[g],
                    IF SameAnswers(blocks[g].fields)
                    THEN LabelsThenValue(blocks[g].fields)
                    ELSE LabelValuePairs(blocks[g].fields, <<"\n">>))

(* C24 as amended: a block with more than one filled field, all holding the
   same value, has the one line 'A, B & C: value'; any other block has one
   line too, its filled fields as 'label: value' joined by ', '. *)
C24_AnswersOnOneLine ==
    mounted =>
        LET blocks == gamesByFieldValues(cartItems, customFieldValues)
        IN  \A g \in 1..Len(blocks) :
                MessageHasBlock(blocks[g],
                    IF SameAnswers(blocks[g].fields)
                    THEN LabelsThenValue(blocks[g].fields)
                    ELSE LabelValuePairs(blocks[g].fields, <<",", " ">>))

\* the message was copied with two different answers for the first game
C24_Witness ==
    /\ last.op = "handleCopyMessage"
    /\ Get(customFieldValues, MessageValueKey(<<"g1">>, <<"uid">>)) = <<"x">>
    /\ Get(customFieldValues, MessageValueKey(<<"g1">>, <<"server">>)) = <<"y">>
    /\ MessageHasBlock([games |-> <<ItemG1a.name>>],
                       <<"User ID", ":", " ", "x", ",", " ", "Server", ":", " ", "y">>)

\* ... and with the same answer to the three questions of the second game
C24_WitnessSame ==
    /\ last.op = "handleCopyMessage"
    /\ Get(customFieldValues, MessageValueKey(<<"g1">>, <<"uid">>)) = <<>>
    /\ Get(customFieldValues, MessageValueKey(<<"g1">>, <<"server">>)) = <<>>
    /\ MessageHasBlock([games |-> <<ItemG2.name>>],
                       <<"User ID", ",", " ", "Server", " ", "&", " ", "Zone",
                         ":", " ", "x">>)

-----------------------------------------------------------------------------
(* C25: whenever no order fetch and no order creation is in flight, orderId
   and the 'current_order_id' entry of localStorage agree: both are absent or
   both name the same order. *)
C25_TrackedOrderAgrees ==
    (/\ mounted
     /\ pending.mountFetch = NULL
     /\ CloseFetchesInFlight = 0
     /\ Len(pending.create) = 0) =>
        orderId = storage.current_order_id

-----------------------------------------------------------------------------
(* C26: a reload preserves the field-value map: when the component, after any
   sequence of field edits, bulk value changes and bulk selection changes, is
   mounted again over the same cart and its effects have run, the field-value
   map is the one from before the reload. *)
C26_ReloadKeepsFieldValues ==
    [][(nReloads' = nReloads + 1 /\ last'.result = "mounted") =>
           customFieldValues' = customFieldValues]_vars

-----------------------------------------------------------------------------
(* C27: at most one createOrder call is in flight at any time, and
   isPlacingOrder is true exactly while one is in flight: once the call has
   returned an order, returned nothing or failed, it is false again. *)
C27_OneOrderInFlight ==
    /\ Len(pending.create) <= 1
    /\ isPlacingOrder <=> Len(pending.create) = 1

\* a second order is being placed, after the first call failed
C27_Witness ==
    /\ nOrders = 2
    /\ Len(pending.create) = 1
    /\ isPlacingOrder
    /\ receiptError = NULL

\* the flag is down again after a call that returned nothing
C27_WitnessReset ==
    /\ last.op = "createOrderResolved"
    /\ last.result = "null"
    /\ ~isPlacingOrder

-----------------------------------------------------------------------------
(* C28: in MainApp, once the effects have run, currentView is 'cart' or
   'checkout' only if the cart holds at least one item (a view restored from
   storage and the clearCart after an order included), and the stored view
   key holds currentView. *)
C28_ViewNeedsCart ==
    /\ currentView \in {"cart", "checkout"} => Len(cartItems) >= 1
    /\ appStorage.reina_customer_view = currentView

\* the order succeeded: the cart was cleared on the checkout view
C28_Witness ==
    /\ last.op = "onSucceededClose"
    /\ Len(cartItems) = 0
    /\ currentView = "menu"
    /\ appStorage.reina_customer_view = "menu"

\* the last item was removed on the cart view
C28_WitnessRemoved ==
    /\ last.op = "removeFromCart"
    /\ Len(cartItems) = 0
    /\ currentView = "menu"

(* C29: in MainApp, in every state reached by category clicks and search
   changes, a search query that is not blank after trimming implies that
   selectedCategory is 'all'; a category click leaves the search query
   empty. *)
C29_SearchMeansAllCategories ==
    /\ Trim(searchQuery) # <<>> => selectedCategory = "all"
    /\ last.op = "handleCategoryClick" => searchQuery = <<>>

\* a search was typed while a category was selected
C29_Witness ==
    /\ last.op = "handleSearchChange"
    /\ searchQuery = <<"x">>
    /\ selectedCategory = "all"
    /\ appStorage.reina_customer_category = "all"

\* a category was clicked while a search was shown
C29_WitnessClick ==
    /\ last = Did("handleCategoryClick", "games", NULL)
    /\ searchQuery = <<>>
    /\ selectedCategory = "games"

=============================================================================
